---- MODULE Spec2Model ----
(***************************************************************************)
(* Gantry: printer lifecycle, G-code VM and action queue.                  *)
(*                                                                         *)
(* f32 values are records [nan, v]: nan marks f32::NAN, v is the number.   *)
(* Velocities are counted in tenths of mm/s, so the clamp floor 0.1 is 1   *)
(* and the default max_velocity 100.0 is 1000.  Distances are whole mm.    *)
(***************************************************************************)
EXTENDS Integers, Sequences, FiniteSets, TLC

\* ------------------------------------------------------------------ bounds
MaxLines == 3     \* lines of all run_gcode scripts together
MaxFileCmds == 2  \* commands of all print-job files together
MaxRuns == 1      \* Instance::run_gcode calls
MaxJobs == 2      \* Instance::start_print_job calls
MaxStops == 1     \* Instance::emergency_stop calls
MaxRestarts == 1  \* Instance::restart calls after Instance::create
MaxOpens == 2     \* open_gcode_file calls
MaxEvents == 1    \* filesystem events that reach the file-watch worker
MaxValueLen == 5  \* bytes of a config value handed to Value::parse
MaxGcodeLen == 6  \* bytes of a block handed to Gcode::parse
MaxParams == 2    \* parameters of a G0/G1 line
MaxFileLines == 3 \* lines of a G-code file handed to GcodeFile::async_parse
MaxLineLen == 3   \* characters of a line of a run_gcode script
MaxHandlers == 3  \* files::watch calls
MaxEdits == 1     \* changes of a gcode file on disk
MaxHeaderLen == 3 \* bytes of the section header of a config
MaxBodyLen == 4   \* bytes of a config below its section header

\* ------------------------------------------------------- program constants
DefaultMaxVelocity == 1000
DefaultMaxAccel == 3000
ClampFloor == 1

\* ---------------------------------------------------------------- f32
NaN == [nan |-> TRUE, v |-> 0]

F(n) == [nan |-> FALSE, v |-> n]

is_nan(f) == f.nan

FAdd(a, b) == IF a.nan \/ b.nan THEN NaN ELSE F(a.v + b.v)

FSub(a, b) == IF a.nan \/ b.nan THEN NaN ELSE F(a.v - b.v)

\* f32::clamp(min, max): panics when min > max or a bound is NaN; NaN stays NaN
ClampPanics(lo, hi) == lo.nan \/ hi.nan \/ lo.v > hi.v

Clamp(f, lo, hi) ==
    IF f.nan THEN f
    ELSE IF f.v < lo.v THEN lo
    ELSE IF f.v > hi.v THEN hi
    ELSE f

\* ---------------------------------------------------------------- inputs
\* Moves as the G0/G1 handler builds them: start_velocity is never set,
\* target_velocity is F/60 or unset, the axes are set or unset.
MoveX1 == [start_velocity |-> NaN, target_velocity |-> NaN,
           x |-> F(1), y |-> NaN, z |-> NaN, e |-> NaN]

MoveE2 == [start_velocity |-> NaN, target_velocity |-> F(300),
           x |-> NaN, y |-> NaN, z |-> NaN, e |-> F(2)]

Moves == {MoveX1, MoveE2}

\* below the target velocity of MoveE2, so the clamp ceiling is met
Velocities == {F(200)}

Temps == {60}

\* enum Action
Action ==
    [k : {"Move"}, mv : Moves]
    \cup [k : {"SetVelocity"}, f : Velocities]
    \cup [k : {"SetBedTemp", "SetBedTempWait"}, t : Temps]
    \cup [k : {"SetExtruderTemp", "SetExtruderTempWait"}, index : {0}, t : Temps]

\* a command of a script or file: its handler pushes one Action, or the
\* command has no handler ("Unknown command")
Unknown == [k |-> "Unknown"]

\* the commands of the scripts: one command for each arm of
\* ActionQueue::push (both Moves, SetVelocity, a temperature that is set, a
\* temperature that is waited for), and an unknown command
Cmds ==
    {a \in Action : a.k \notin {"SetBedTempWait", "SetExtruderTemp"}}
    \cup {Unknown}

\* the commands of the print-job files
FileCmds == {[k |-> "Move", mv |-> MoveE2],
             [k |-> "SetVelocity", f |-> F(200)],
             [k |-> "SetBedTemp", t |-> 60],
             [k |-> "SetExtruderTempWait", index |-> 0, t |-> 60],
             Unknown}

NoAction == [k |-> "None"]

None == [k |-> "None"]

IsWait(a) == a.k \in {"SetBedTempWait", "SetExtruderTempWait"}

IsDeferrable(a) == a.k \in {"SetBedTemp", "SetExtruderTemp"}

\* Tasks that execute VM commands: the event-loop task (file jobs), one
\* Instance::run_gcode caller, and an aborted event-loop task that was being
\* polled when JoinHandle::abort was called: it runs on to its next yield.
Tasks == {"loop", "rpc", "zombie"}

\* the tasks that run print-job files
FileTasks == {"loop", "zombie"}

\* positions of a task inside ActionQueue::push / flush
InPush == {"push", "body", "wflush", "wflush_body", "wsend"}

\* ---------------------------------------------------------------- state
VARIABLES
    \* ActionState
    max_velocity, absolute_position, absolute_extrution,
    gcode_line, gcode_running,
    x_position, y_position, z_position, e_position,
    \* ActionQueue (suspended) and ActionQueueInner
    aq_suspended, first_move, first_move_accel, next_actions,
    \* GcodeVM (suspended)
    vm_suspended,
    \* Printer
    state, error_code, print_job_queue, event_loop_handle,
    sent,        \* every event passed to event_sender.send, in order
    recv_idx,    \* number of events the event loop has received
    \* Instance: RwLock<Printer>
    lock_readers, lock_writer, restart_tasks,
    cfg_found,   \* what the restart task in progress finds at config_path
    \* tasks
    pc, cur, left, job,
    \* callers
    estop_pc, spawn_pc, runs, stops, restarts,
    cmds,        \* commands of the scripts and files run so far
    \* history
    accepted,    \* the relative Moves that push accepted, in order
    ignored,     \* number of pushes that returned at the suspended check
    failed,      \* ids of the jobs whose file run returned an error
    started,     \* ids of the jobs the event loop started, in order
    next_job_id,
    \* Instance::validate_token_state
    token_reply, \* the last call: what Auth said of the token, what it returned
    \* files.rs: the file-watch worker and the callers of open_gcode_file
    cache,       \* HashMap<PathBuf, Arc<GcodeFile>>
    watched,     \* the paths registered with the watcher
    requests,    \* the channel of path requests (RW.0)
    results,     \* the channel of results (RW.1)
    rw_holder,   \* who holds the Mutex around the result receiver
    parse_pc, parse_filename,
    parses,      \* GcodeFile values made so far
    event,       \* the last event the file-change task has handled
    events,
    open_pc, open_path, open_got, opens,
    disk,        \* the version of the content each file has on disk
    reading,     \* the version try_parse_file reads
    content,     \* the version each GcodeFile was parsed from, by gen
    processed,   \* per path, the version on disk that the last Modify or
                 \* Remove event the file-change task handled was about
    open_after,  \* per caller, processed[path] when its open started
    handlers,    \* HANDLERS: the (path, handler) pairs, handlers by number
    handler_log, \* watch calls so far; the callbacks the last event invoked
                 \* and what each returned
    \* config/cfg.rs: a Stream and what a parser made of it
    cfg_data,    \* Stream.data, a sequence of characters
    cfg_out,     \* the parser called, its result and Stream.pointer after it
    \* gcode/g1.rs: the parameters of a G0/G1 line and what the handler did
    g1_params, g1_out,
    \* gcode/parser.rs: the lines of a file and the GcodeFile made of them
    gf_lines, gf_out,
    script_line  \* the line run_gcode_string handled last

action_state_vars == <<max_velocity, absolute_position, absolute_extrution,
                       gcode_line, gcode_running,
                       x_position, y_position, z_position, e_position>>

inner_vars == <<first_move, first_move_accel, next_actions>>

printer_vars == <<state, error_code, print_job_queue, event_loop_handle, recv_idx>>

lock_vars == <<lock_readers, lock_writer, restart_tasks, cfg_found>>

task_vars == <<pc, cur, left, job>>

caller_vars == <<estop_pc, spawn_pc, runs, stops, restarts, cmds>>

history_vars == <<accepted, ignored, failed, started, next_job_id>>

\* what the callers of the Instance and the process-wide services hold
file_vars == <<cache, watched, requests, results, rw_holder, parse_pc,
               parse_filename, parses, event, events, open_pc, open_path,
               open_got, opens, handlers, handler_log, disk, reading, content,
               processed, open_after>>

config_vars == <<cfg_data, cfg_out>>

gcode_vars == <<g1_params, g1_out, gf_lines, gf_out, script_line>>

service_vars == <<token_reply, file_vars, config_vars, gcode_vars>>

vars == <<action_state_vars, aq_suspended, inner_vars, vm_suspended,
          printer_vars, sent, lock_vars, task_vars, caller_vars, history_vars,
          service_vars>>

\* no call of validate_token_state yet
NoReply == [is_valid |-> FALSE, is_timeout |-> FALSE, err |-> "NoReply"]

\* the callers of open_gcode_file
Callers == {"c1", "c2"}

\* canonical paths: the gcodes directory and two files in it
Dir == <<"gcodes">>

FileA == <<"gcodes", "a.gcode">>

FileB == <<"gcodes", "b.gcode">>

Paths == {Dir, FileA, FileB}

\* what start_print_job can ask for: the paths, a path with a "." in it and
\* a file that does not exist
DotFileA == <<"gcodes", ".", "a.gcode">>

Missing == <<"gcodes", "missing.gcode">>

Filenames == Paths \cup {DotFileA, Missing}

NoPath == <<>>

\* anyhow::Result<Arc<GcodeFile>>: gen tells the Arcs apart (0: an Err),
\* path is the path the worker made the result for
NoResult == [path |-> NoPath, gen |-> 0 - 1]

Err(path) == [path |-> path, gen |-> 0]

Ok(path, gen) == [path |-> path, gen |-> gen]

EmptyCache == [p \in {} |-> NoResult]

NoEvent == [kind |-> "None", paths |-> {}]

\* no watch call yet, no callback invoked
NoCalls == [registered |-> 0, invoked |-> {}, returned |-> <<>>]

\* the services before their first request
InitService ==
    /\ token_reply = NoReply
    /\ cache = EmptyCache
    /\ watched = {}
    /\ requests = <<>>
    /\ results = <<>>
    /\ rw_holder = "none"
    /\ parse_pc = "recv"
    /\ parse_filename = NoPath
    /\ parses = 0
    /\ event = NoEvent
    /\ events = 0
    /\ open_pc = [c \in Callers |-> "idle"]
    /\ open_path = [c \in Callers |-> NoPath]
    /\ open_got = [c \in Callers |-> NoResult]
    /\ opens = 0
    /\ handlers = <<>>
    /\ handler_log = NoCalls
    /\ disk = [p \in Paths |-> 0]
    /\ reading = 0
    /\ content = <<>>
    /\ processed = [p \in Paths |-> 0]
    /\ open_after = [c \in Callers |-> 0]

\* no G0/G1 line in the handler's hands, no file in the parser's
InitGcode ==
    /\ g1_params = <<>>
    /\ g1_out = [r |-> "none", pushed |-> <<>>]
    /\ gf_lines = <<>>
    /\ gf_out = [r |-> "none", thumbnails |-> <<>>, commands |-> <<>>,
                 meta |-> <<>>]
    /\ script_line = <<>>

\* no parser has been called on the stream
NotParsed == [by |-> "none", r |-> "none", v |-> <<>>, p |-> 0]

\* State after Instance::create: Printer::new, then Instance::restart has
\* stopped the printer and spawned the first restart task.
InitPrinter ==
    /\ max_velocity = F(DefaultMaxVelocity)
    /\ absolute_position = FALSE
    /\ absolute_extrution = FALSE
    /\ gcode_line = 0
    /\ gcode_running = FALSE
    /\ x_position = NaN
    /\ y_position = NaN
    /\ z_position = NaN
    /\ e_position = F(0)
    /\ aq_suspended = TRUE
    /\ first_move = None
    /\ first_move_accel = 0
    /\ next_actions = <<>>
    /\ vm_suspended = TRUE
    /\ state = "Shutdown"
    /\ error_code = "None"
    /\ print_job_queue = <<>>
    /\ event_loop_handle = FALSE
    /\ sent = <<>>
    /\ recv_idx = 0
    /\ lock_readers = {}
    /\ lock_writer = FALSE
    /\ restart_tasks = 1
    /\ cfg_found = "none"
    /\ pc = [t \in Tasks |-> "none"]
    /\ cur = [t \in Tasks |-> NoAction]
    /\ left = [t \in Tasks |-> 0]
    /\ job = [t \in Tasks |-> 0]
    /\ estop_pc = "idle"
    /\ spawn_pc = "idle"
    /\ runs = 0
    /\ stops = 0
    /\ restarts = 0
    /\ cmds = 0
    /\ accepted = <<>>
    /\ ignored = 0
    /\ failed = {}
    /\ started = <<>>
    /\ next_job_id = 1

\* ... with no config text in a parser's hands
Init ==
    /\ InitPrinter
    /\ InitService
    /\ InitGcode
    /\ cfg_data = <<>>
    /\ cfg_out = NotParsed

\* ------------------------------------------------------------ ActionQueue
Event(a) == [ev |-> "Action", a |-> a]

RunNextPrintJob == [ev |-> "RunNextPrintJob"]

\* PrinterAction built from a thermal Action (same variant, same payload)
PrinterAction(a) == a

\* ActionQueue::send_action for a sequence of actions, in order
SendAll(log, actions) == log \o [i \in 1..Len(actions) |-> Event(actions[i])]

\* ActionQueue::encode_and_send: the body is empty, nothing is sent
encode_and_send(log, move_, next_move) == log

\* a target_velocity that is defaulted and not clamped
WithVelocityUnclamped(m) ==
    [m EXCEPT !.target_velocity =
        IF is_nan(m.target_velocity) THEN max_velocity ELSE @]

\* push, Move arm: target_velocity defaulted and clamped
WithVelocity(m) ==
    LET tv == IF is_nan(m.target_velocity) THEN max_velocity
              ELSE m.target_velocity
    IN [m EXCEPT !.target_velocity =
            Clamp(tv, F(ClampFloor), max_velocity)]

\* a conversion that keeps the absolute target
AxisKeepsTarget(abs, v, pos) == IF is_nan(v) THEN F(0) ELSE v

\* push, Move arm: absolute -> relative, then NaN -> 0
Axis(abs, v, pos) ==
    LET r == IF abs /\ ~is_nan(v) THEN FSub(v, pos) ELSE v
    IN IF is_nan(r) THEN F(0) ELSE r

Relative(m) ==
    [WithVelocity(m) EXCEPT
        !.x = Axis(absolute_position, m.x, x_position),
        !.y = Axis(absolute_position, m.y, y_position),
        !.z = Axis(absolute_position, m.z, z_position),
        !.e = Axis(absolute_extrution, m.e, e_position)]

\* fetch_add that loses the distance
fetch_add_lost(position, distance) == position

\* push, Move arm: "add the distances to state"
fetch_add(position, distance) == FAdd(position, distance)

\* what a task does when its push returns: a file run stores count + 1
\* into gcode_line, a script goes to its next line
Finish(t) ==
    /\ pc' = [pc EXCEPT ![t] = "line"]
    /\ cur' = [cur EXCEPT ![t] = NoAction]
    /\ gcode_line' = IF t \in FileTasks THEN gcode_line + 1 ELSE gcode_line
    /\ UNCHANGED <<left, job>>

\* a push that does not look at suspended
PushEnterNoCheck(t) ==
    /\ pc[t] = "push"
    /\ pc' = [pc EXCEPT ![t] = IF IsWait(cur[t]) THEN "wflush" ELSE "body"]
    /\ UNCHANGED <<service_vars,
                   action_state_vars, aq_suspended, inner_vars, vm_suspended,
                   printer_vars, sent, lock_vars, cur, left, job, caller_vars,
                   history_vars>>

\* ActionQueue::push, entry: "does not accept push when suspended"
PushEnter(t) ==
    /\ pc[t] = "push"
    /\ IF aq_suspended
       THEN /\ Finish(t)
            /\ ignored' = ignored + 1
       ELSE /\ pc' = [pc EXCEPT ![t] =
                        IF IsWait(cur[t]) THEN "wflush" ELSE "body"]
            /\ UNCHANGED <<cur, left, job, gcode_line, ignored>>
    /\ UNCHANGED <<service_vars,
                   max_velocity, absolute_position, absolute_extrution,
                   gcode_running, x_position, y_position, z_position,
                   e_position, aq_suspended, inner_vars, vm_suspended,
                   printer_vars, sent, lock_vars, caller_vars, accepted,
                   failed, started, next_job_id>>

\* ActionQueue::push, Move arm, under the inner lock
PushMove(t) ==
    /\ pc[t] = "body"
    /\ cur[t].k = "Move"
    /\ ~ClampPanics(F(ClampFloor), max_velocity)
    /\ LET next_move == Relative(cur[t].mv) IN
        /\ x_position' = fetch_add(x_position, next_move.x)
        /\ y_position' = fetch_add(y_position, next_move.y)
        /\ z_position' = fetch_add(z_position, next_move.z)
        /\ e_position' = fetch_add(e_position, next_move.e)
        /\ accepted' = Append(accepted, next_move)
        /\ IF first_move # None
           THEN /\ sent' = SendAll(encode_and_send(sent, first_move, next_move),
                                   next_actions)
                /\ first_move' = None
                /\ next_actions' = <<>>
                /\ UNCHANGED first_move_accel
           ELSE /\ first_move' = next_move
                /\ first_move_accel' = DefaultMaxAccel
                /\ UNCHANGED <<sent, next_actions>>
    /\ Finish(t)
    /\ UNCHANGED <<service_vars,
                   max_velocity, absolute_position, absolute_extrution,
                   gcode_running, aq_suspended, vm_suspended, printer_vars,
                   lock_vars, caller_vars, ignored, failed, started,
                   next_job_id>>

\* ActionQueue::push, Move arm, "clamp the velocity": f32::clamp panics
\* when max_velocity is below the floor; the guards of the task are dropped
\* while its stack unwinds, nothing has been written yet
PushMovePanics(t) ==
    /\ pc[t] = "body"
    /\ cur[t].k = "Move"
    /\ ClampPanics(F(ClampFloor), max_velocity)
    /\ pc' = [pc EXCEPT ![t] = "panic"]
    /\ lock_readers' = lock_readers \ {t}
    /\ UNCHANGED <<service_vars,
                   action_state_vars, aq_suspended, inner_vars, vm_suspended,
                   printer_vars, sent, lock_writer, restart_tasks, cfg_found,
                   cur, left, job, caller_vars, history_vars>>

\* a SetVelocity that also retargets the held first_move
PushSetVelocityRetarget(t) ==
    /\ pc[t] = "body"
    /\ cur[t].k = "SetVelocity"
    /\ max_velocity' = cur[t].f
    /\ first_move' = IF first_move = None THEN None
                     ELSE [first_move EXCEPT !.target_velocity =
                              Clamp(@, F(ClampFloor), cur[t].f)]
    /\ Finish(t)
    /\ UNCHANGED <<service_vars,
                   absolute_position, absolute_extrution, gcode_running,
                   x_position, y_position, z_position, e_position,
                   aq_suspended, first_move_accel, next_actions, vm_suspended,
                   printer_vars, sent,
                   lock_vars, caller_vars, history_vars>>

\* ActionQueue::push, SetVelocity arm
PushSetVelocity(t) ==
    /\ pc[t] = "body"
    /\ cur[t].k = "SetVelocity"
    /\ max_velocity' = cur[t].f
    /\ Finish(t)
    /\ UNCHANGED <<service_vars,
                   absolute_position, absolute_extrution, gcode_running,
                   x_position, y_position, z_position, e_position,
                   aq_suspended, inner_vars, vm_suspended, printer_vars, sent,
                   lock_vars, caller_vars, history_vars>>

\* a push that defers the temperature whether a move is held or not
PushSetTempDefers(t) ==
    /\ pc[t] = "body"
    /\ IsDeferrable(cur[t])
    /\ next_actions' = Append(next_actions, PrinterAction(cur[t]))
    /\ UNCHANGED sent
    /\ Finish(t)
    /\ UNCHANGED <<service_vars,
                   max_velocity, absolute_position, absolute_extrution,
                   gcode_running, x_position, y_position, z_position,
                   e_position, aq_suspended, first_move, first_move_accel,
                   vm_suspended, printer_vars, lock_vars, caller_vars,
                   history_vars>>

\* ActionQueue::push, SetBedTemp and SetExtruderTemp arms
PushSetTemp(t) ==
    /\ pc[t] = "body"
    /\ IsDeferrable(cur[t])
    /\ IF first_move # None
       THEN /\ next_actions' = Append(next_actions, PrinterAction(cur[t]))
            /\ UNCHANGED sent
       ELSE /\ sent' = SendAll(sent, <<PrinterAction(cur[t])>>)
            /\ UNCHANGED next_actions
    /\ Finish(t)
    /\ UNCHANGED <<service_vars,
                   max_velocity, absolute_position, absolute_extrution,
                   gcode_running, x_position, y_position, z_position,
                   e_position, aq_suspended, first_move, first_move_accel,
                   vm_suspended, printer_vars, lock_vars, caller_vars,
                   history_vars>>

\* ActionQueue::flush, entry: "ignore if suspended".  A task reaches it
\* from the Wait arms of push ("wflush") or at the end of a script ("flush")
FlushEnter(t) ==
    /\ pc[t] \in {"wflush", "flush"}
    /\ pc' = [pc EXCEPT ![t] =
                IF pc[t] = "wflush"
                THEN (IF aq_suspended THEN "wsend" ELSE "wflush_body")
                ELSE (IF aq_suspended THEN "ret" ELSE "flush_body")]
    /\ UNCHANGED <<service_vars,
                   action_state_vars, aq_suspended, inner_vars, vm_suspended,
                   printer_vars, sent, lock_vars, cur, left, job, caller_vars,
                   history_vars>>

\* ActionQueue::flush, under the inner lock
FlushBody(t) ==
    /\ pc[t] \in {"wflush_body", "flush_body"}
    /\ sent' = SendAll(IF first_move # None
                       THEN encode_and_send(sent, first_move, None)
                       ELSE sent,
                       next_actions)
    /\ first_move' = None
    /\ next_actions' = <<>>
    /\ pc' = [pc EXCEPT ![t] = IF pc[t] = "wflush_body" THEN "wsend" ELSE "ret"]
    /\ UNCHANGED <<service_vars,
                   action_state_vars, aq_suspended, first_move_accel,
                   vm_suspended, printer_vars, lock_vars, cur, left, job,
                   caller_vars, history_vars>>

\* ActionQueue::push, SetBedTempWait and SetExtruderTempWait arms, after the
\* flush: send_action, without the inner lock
PushWaitSend(t) ==
    /\ pc[t] = "wsend"
    /\ sent' = SendAll(sent, <<PrinterAction(cur[t])>>)
    /\ Finish(t)
    /\ UNCHANGED <<service_vars,
                   max_velocity, absolute_position, absolute_extrution,
                   gcode_running, x_position, y_position, z_position,
                   e_position, aq_suspended, inner_vars, vm_suspended,
                   printer_vars, lock_vars, caller_vars, history_vars>>

\* ---------------------------------------------------------------- GcodeVM
\* a run_gcode_string that flushes before it returns the error of a line
StringLineFlushes(c) ==
    /\ pc["rpc"] = "line"
    /\ left["rpc"] > 0
    /\ IF vm_suspended \/ c = Unknown
       THEN /\ pc' = [pc EXCEPT !["rpc"] = IF vm_suspended THEN "ret"
                                           ELSE "flush"]
            /\ left' = [left EXCEPT !["rpc"] = 0]
            /\ UNCHANGED cur
       ELSE /\ pc' = [pc EXCEPT !["rpc"] = "push"]
            /\ left' = [left EXCEPT !["rpc"] = @ - 1]
            /\ cur' = [cur EXCEPT !["rpc"] = c]
    /\ UNCHANGED <<service_vars,
                   action_state_vars, aq_suspended, inner_vars, vm_suspended,
                   printer_vars, sent, lock_vars, job, caller_vars,
                   history_vars>>

\* GcodeVM::run_gcode_string, one iteration: the suspended check, then
\* run_single_line_gcode_string and run_gcode (handler lookup, handler)
StringLine(c) ==
    /\ pc["rpc"] = "line"
    /\ left["rpc"] > 0
    /\ IF vm_suspended \/ c = Unknown
       THEN \* return Ok(()) or the error, without the flush
            /\ pc' = [pc EXCEPT !["rpc"] = "ret"]
            /\ left' = [left EXCEPT !["rpc"] = 0]
            /\ UNCHANGED cur
       ELSE /\ pc' = [pc EXCEPT !["rpc"] = "push"]
            /\ left' = [left EXCEPT !["rpc"] = @ - 1]
            /\ cur' = [cur EXCEPT !["rpc"] = c]
    /\ UNCHANGED <<service_vars,
                   action_state_vars, aq_suspended, inner_vars, vm_suspended,
                   printer_vars, sent, lock_vars, job, caller_vars,
                   history_vars>>

\* GcodeVM::run_gcode_string, after the last line: flush the action queue
StringEnd ==
    /\ pc["rpc"] = "line"
    /\ left["rpc"] = 0
    /\ pc' = [pc EXCEPT !["rpc"] = "flush"]
    /\ UNCHANGED <<service_vars,
                   action_state_vars, aq_suspended, inner_vars, vm_suspended,
                   printer_vars, sent, lock_vars, cur, left, job, caller_vars,
                   history_vars>>

\* GcodeVM::run_gcode_file, one iteration: run_gcode returns Ok(()) at once
\* when suspended (the loop goes on and counts the command), fails on an
\* unknown command, else calls the handler
FileLine(t, c) ==
    /\ t \in FileTasks
    /\ pc[t] = "line"
    /\ left[t] > 0
    /\ IF vm_suspended
       THEN /\ left' = [left EXCEPT ![t] = @ - 1]
            /\ gcode_line' = gcode_line + 1
            /\ UNCHANGED <<pc, cur, failed>>
       ELSE IF c = Unknown
       THEN /\ pc' = [pc EXCEPT ![t] = "job_done"]
            /\ left' = [left EXCEPT ![t] = 0]
            /\ failed' = failed \cup {job[t]}
            /\ UNCHANGED <<cur, gcode_line>>
       ELSE /\ pc' = [pc EXCEPT ![t] = "push"]
            /\ left' = [left EXCEPT ![t] = @ - 1]
            /\ cur' = [cur EXCEPT ![t] = c]
            /\ UNCHANGED <<gcode_line, failed>>
    /\ UNCHANGED <<service_vars,
                   max_velocity, absolute_position, absolute_extrution,
                   gcode_running, x_position, y_position, z_position,
                   e_position, aq_suspended, inner_vars, vm_suspended,
                   printer_vars, sent, lock_vars, job, caller_vars,
                   accepted, ignored, started, next_job_id>>

\* GcodeVM::run_gcode_file, after the last command: return Ok(())
FileEnd(t) ==
    /\ t \in FileTasks
    /\ pc[t] = "line"
    /\ left[t] = 0
    /\ pc' = [pc EXCEPT ![t] = "job_done"]
    /\ UNCHANGED <<service_vars,
                   action_state_vars, aq_suspended, inner_vars, vm_suspended,
                   printer_vars, sent, lock_vars, cur, left, job, caller_vars,
                   history_vars>>

\* ---------------------------------------------------------------- Printer
\* a stop that leaves the VM as it is
emergency_stop_queue_only ==
    /\ event_loop_handle' = FALSE
    /\ \E keep \in BOOLEAN :
        /\ keep => (pc["loop"] \notin {"none", "recv"} /\ pc["zombie"] = "none")
        /\ pc' = [pc EXCEPT !["loop"] = "none",
                            !["zombie"] = IF keep THEN pc["loop"] ELSE @]
        /\ cur' = [cur EXCEPT !["loop"] = NoAction,
                              !["zombie"] = IF keep THEN cur["loop"] ELSE @]
        /\ left' = [left EXCEPT !["loop"] = 0,
                                !["zombie"] = IF keep THEN left["loop"] ELSE @]
        /\ job' = [job EXCEPT !["loop"] = 0,
                              !["zombie"] = IF keep THEN job["loop"] ELSE @]
    /\ aq_suspended' = TRUE
    /\ vm_suspended' = vm_suspended
    /\ state' = "Shutdown"
    /\ error_code' = "None"

\* Printer::emergency_stop.  JoinHandle::abort stops the event-loop task
\* at its next yield: a task that is being polled on another worker thread
\* goes on (as "zombie") until it waits for the next event, a task that is
\* waiting is dropped where it waits.
emergency_stop ==
    /\ event_loop_handle' = FALSE
    /\ \E keep \in BOOLEAN :
        /\ keep => (pc["loop"] \notin {"none", "recv"} /\ pc["zombie"] = "none")
        /\ pc' = [pc EXCEPT !["loop"] = "none",
                            !["zombie"] = IF keep THEN pc["loop"] ELSE @]
        /\ cur' = [cur EXCEPT !["loop"] = NoAction,
                              !["zombie"] = IF keep THEN cur["loop"] ELSE @]
        /\ left' = [left EXCEPT !["loop"] = 0,
                                !["zombie"] = IF keep THEN left["loop"] ELSE @]
        /\ job' = [job EXCEPT !["loop"] = 0,
                              !["zombie"] = IF keep THEN job["loop"] ELSE @]
    /\ aq_suspended' = TRUE
    /\ vm_suspended' = TRUE
    /\ state' = "Shutdown"
    /\ error_code' = "None"

\* RwLock<Printer>: nobody holds it
LockFree == lock_readers = {} /\ ~lock_writer

\* RwLock<Printer>::read succeeds: no writer holds the lock and none is
\* queued before the reader (the lock is write-preferring)
CanRead == ~lock_writer /\ estop_pc # "waiting"

\* Instance::emergency_stop is called: block_in_place, blocking_write waits
EmergencyStopCall ==
    /\ stops < MaxStops
    /\ estop_pc = "idle"
    /\ estop_pc' = "waiting"
    /\ stops' = stops + 1
    /\ UNCHANGED <<service_vars,
                   action_state_vars, aq_suspended, inner_vars, vm_suspended,
                   printer_vars, sent, lock_vars, task_vars, spawn_pc, runs,
                   restarts, cmds, history_vars>>

\* Instance::emergency_stop: the write lock is acquired, the printer is
\* stopped, the lock is released and the call returns
EmergencyStop ==
    /\ estop_pc = "waiting"
    /\ LockFree
    /\ emergency_stop
    /\ estop_pc' = "idle"
    /\ UNCHANGED <<service_vars,
                   action_state_vars, inner_vars, print_job_queue, recv_idx,
                   sent, lock_vars, spawn_pc, runs, stops, restarts, cmds,
                   history_vars>>

\* Instance::restart: under the write lock stop the printer, spawn the
\* task that restarts it, return
InstanceRestart ==
    /\ restarts < MaxRestarts
    /\ LockFree
    /\ estop_pc # "waiting"
    /\ emergency_stop
    /\ restart_tasks' = restart_tasks + 1
    /\ restarts' = restarts + 1
    /\ UNCHANGED <<service_vars,
                   action_state_vars, inner_vars, print_job_queue, recv_idx,
                   sent, lock_readers, lock_writer, cfg_found, estop_pc, spawn_pc, runs,
                   stops, cmds, history_vars>>

\* what Printer::restart can find at config_path: a config that parses, or
\* a file that cannot be opened, read or parsed
ConfigFailures == {"open", "read", "parse"}

Configs == {"ok"} \cup ConfigFailures

\* the spawned task takes the write lock; Printer::restart sets Startup;
\* found is what it will find at config_path
RestartBegin(found) ==
    /\ restart_tasks > 0
    /\ LockFree
    /\ lock_writer' = TRUE
    /\ restart_tasks' = restart_tasks - 1
    /\ cfg_found' = found
    /\ state' = "Startup"
    /\ error_code' = "None"
    /\ UNCHANGED <<service_vars,
                   action_state_vars, aq_suspended, inner_vars, vm_suspended,
                   print_job_queue, event_loop_handle, recv_idx, sent,
                   lock_readers, task_vars, caller_vars, history_vars>>

\* the code Printer::restart stores for each way the config can fail
RestartErrorCode(failure) ==
    IF failure = "open" THEN "FileNotFound" ELSE "FileReadError"

\* Printer::restart: the config cannot be opened, read or parsed
RestartFail ==
    /\ lock_writer
    /\ cfg_found \in ConfigFailures
    /\ state' = "Error"
    /\ error_code' = RestartErrorCode(cfg_found)
    /\ lock_writer' = FALSE
    /\ cfg_found' = "none"
    /\ UNCHANGED <<service_vars,
                   action_state_vars, aq_suspended, inner_vars, vm_suspended,
                   print_job_queue, event_loop_handle, recv_idx, sent,
                   lock_readers, restart_tasks, task_vars, caller_vars,
                   history_vars>>

\* a restart that resumes without ActionQueue::clear
RestartResumeNoClear ==
    /\ lock_writer
    /\ cfg_found = "ok"
    /\ first_move' = first_move
    /\ next_actions' = next_actions
    /\ aq_suspended' = FALSE
    /\ vm_suspended' = FALSE

\* Printer::restart with a good config: ActionQueue::clear, resume the
\* queue, resume the VM
RestartResume ==
    /\ lock_writer
    /\ cfg_found = "ok"
    /\ first_move' = None
    /\ next_actions' = <<>>
    /\ aq_suspended' = FALSE
    /\ vm_suspended' = FALSE

\* Printer::restart as the source has it: after the resume calls it runs
\* into todo!(); the task panics and the write guard is dropped while the
\* stack unwinds
RestartTodo ==
    /\ RestartResume
    /\ lock_writer' = FALSE
    /\ cfg_found' = "none"
    /\ UNCHANGED <<service_vars,
                   action_state_vars, first_move_accel, printer_vars, sent,
                   lock_readers, restart_tasks, task_vars, caller_vars,
                   history_vars>>

\* Printer::restart after the resume calls, where the source stops at
\* todo!(): spawn the event loop, set Ready
SpawnEventLoop ==
    /\ event_loop_handle' = TRUE
    /\ pc' = [pc EXCEPT !["loop"] = IF @ = "none" THEN "recv" ELSE @]
    /\ state' = "Ready"

\* Printer::restart completed as spec.md 4.6 has it
RestartFinish ==
    /\ RestartResume
    /\ SpawnEventLoop
    /\ lock_writer' = FALSE
    /\ cfg_found' = "none"
    /\ UNCHANGED <<service_vars,
                   action_state_vars, first_move_accel, error_code,
                   print_job_queue, recv_idx, sent, lock_readers,
                   restart_tasks, cur, left, job, caller_vars, history_vars>>

\* a gate that never reads the flag
is_gcode_running_unset == FALSE

\* Printer::is_gcode_running
is_gcode_running == gcode_running

\* a queue that takes new jobs at its head
PushFront(queue, id) == <<id>> \o queue

\* VecDeque::push_back
PushBack(queue, id) == Append(queue, id)

\* Printer::spawn_print_job, first half: take the write lock of
\* print_job_queue and push_back the job (Instance::start_print_job holds
\* the printer read lock around the call)

SpawnPrintJobPush ==
    /\ next_job_id <= MaxJobs
    /\ spawn_pc = "idle"
    /\ CanRead
    /\ lock_readers' = lock_readers \cup {"spawn"}
    /\ print_job_queue' = PushBack(print_job_queue, next_job_id)
    /\ next_job_id' = next_job_id + 1
    /\ spawn_pc' = "pushed"
    /\ UNCHANGED <<service_vars,
                   action_state_vars, aq_suspended, inner_vars, vm_suspended,
                   state, error_code, event_loop_handle, recv_idx, sent,
                   lock_writer, restart_tasks,
                   cfg_found, task_vars, estop_pc, runs,
                   stops, restarts, cmds, accepted, ignored, failed, started>>

\* a spawn_print_job that enqueues without waking the event loop
SpawnPrintJobNoNotify ==
    /\ spawn_pc = "pushed"
    /\ sent' = sent
    /\ spawn_pc' = "idle"
    /\ lock_readers' = lock_readers \ {"spawn"}
    /\ UNCHANGED <<service_vars,
                   action_state_vars, aq_suspended, inner_vars, vm_suspended,
                   printer_vars, lock_writer, restart_tasks,
                   cfg_found, task_vars,
                   estop_pc, runs, stops, restarts, cmds, history_vars>>

\* Printer::spawn_print_job, second half: send RunNextPrintJob unless
\* is_gcode_running, release the locks
SpawnPrintJobNotify ==
    /\ spawn_pc = "pushed"
    /\ sent' = IF ~is_gcode_running THEN Append(sent, RunNextPrintJob)
               ELSE sent
    /\ spawn_pc' = "idle"
    /\ lock_readers' = lock_readers \ {"spawn"}
    /\ UNCHANGED <<service_vars,
                   action_state_vars, aq_suspended, inner_vars, vm_suspended,
                   printer_vars, lock_writer, restart_tasks,
                   cfg_found, task_vars,
                   estop_pc, runs, stops, restarts, cmds, history_vars>>

\* ---------------------------------------------------------------- Instance
\* Instance::run_gcode: take the printer read lock, call run_gcode_string
\* with a script of n lines
RunGcode(n) ==
    /\ runs < MaxRuns
    /\ pc["rpc"] = "none"
    /\ CanRead
    /\ lock_readers' = lock_readers \cup {"rpc"}
    /\ pc' = [pc EXCEPT !["rpc"] = "line"]
    /\ left' = [left EXCEPT !["rpc"] = n]
    /\ runs' = runs + 1
    /\ cmds' = cmds + n
    /\ UNCHANGED <<service_vars,
                   action_state_vars, aq_suspended, inner_vars, vm_suspended,
                   printer_vars, sent, lock_writer, restart_tasks,
                   cfg_found, cur, job,
                   estop_pc, spawn_pc, stops, restarts, history_vars>>

\* Instance::run_gcode returns: the read guard is dropped
RunGcodeReturn ==
    /\ pc["rpc"] = "ret"
    /\ pc' = [pc EXCEPT !["rpc"] = "none"]
    /\ lock_readers' = lock_readers \ {"rpc"}
    /\ UNCHANGED <<service_vars,
                   action_state_vars, aq_suspended, inner_vars, vm_suspended,
                   printer_vars, sent, lock_writer, restart_tasks,
                   cfg_found, cur, left,
                   job, caller_vars, history_vars>>

\* -------------------------------------------------------------- event loop
\* The event-loop task, after spec.md 4.6: it receives the events in order.
\* Action(a): forward to the driver.
LoopForward ==
    /\ pc["loop"] = "recv"
    /\ recv_idx < Len(sent)
    /\ sent[recv_idx + 1].ev = "Action"
    /\ recv_idx' = recv_idx + 1
    /\ UNCHANGED <<service_vars,
                   action_state_vars, aq_suspended, inner_vars, vm_suspended,
                   state, error_code, print_job_queue, event_loop_handle,
                   sent, lock_vars, task_vars, caller_vars, history_vars>>

\* VecDeque::pop_front on a non-empty queue
PopFront(queue) == Tail(queue)

\* RunNextPrintJob: if not already running, pop the head of the queue, set
\* gcode_running, run the file (run_gcode_file stores 0 into gcode_line);
\* n is the number of commands of the file
LoopRunNext(n) ==
    /\ pc["loop"] = "recv"
    /\ recv_idx < Len(sent)
    /\ sent[recv_idx + 1].ev = "RunNextPrintJob"
    /\ spawn_pc = "idle"
    /\ recv_idx' = recv_idx + 1
    /\ IF ~is_gcode_running /\ print_job_queue # <<>>
       THEN /\ job' = [job EXCEPT !["loop"] = Head(print_job_queue)]
            /\ print_job_queue' = PopFront(print_job_queue)
            /\ started' = Append(started, Head(print_job_queue))
            /\ gcode_running' = TRUE
            /\ gcode_line' = 0
            /\ pc' = [pc EXCEPT !["loop"] = "line"]
            /\ left' = [left EXCEPT !["loop"] = n]
            /\ cmds' = cmds + n
       ELSE UNCHANGED <<job, print_job_queue, started, gcode_running,
                        gcode_line, pc, left, cmds>>
    /\ UNCHANGED <<service_vars,
                   max_velocity, absolute_position, absolute_extrution,
                   x_position, y_position, z_position, e_position,
                   aq_suspended, inner_vars, vm_suspended, state, error_code,
                   event_loop_handle, sent, lock_vars, cur, estop_pc, spawn_pc,
                   runs, stops, restarts, accepted, ignored, failed,
                   next_job_id>>

\* on completion or failure of the file: gcode_running = false
LoopJobDone(t) ==
    /\ t \in FileTasks
    /\ pc[t] = "job_done"
    /\ gcode_running' = FALSE
    /\ job' = [job EXCEPT ![t] = 0]
    /\ pc' = [pc EXCEPT ![t] = "repost"]
    /\ UNCHANGED <<service_vars,
                   max_velocity, absolute_position, absolute_extrution,
                   gcode_line, x_position, y_position, z_position, e_position,
                   aq_suspended, inner_vars, vm_suspended, printer_vars, sent,
                   lock_vars, cur, left, caller_vars, history_vars>>

\* ... and re-post RunNextPrintJob if the queue is non-empty
LoopRepost(t) ==
    /\ t \in FileTasks
    /\ pc[t] = "repost"
    /\ spawn_pc = "idle"
    /\ sent' = IF print_job_queue # <<>> THEN Append(sent, RunNextPrintJob)
               ELSE sent
    /\ pc' = [pc EXCEPT ![t] = IF t = "loop" THEN "recv" ELSE "none"]
    /\ UNCHANGED <<service_vars,
                   action_state_vars, aq_suspended, inner_vars, vm_suspended,
                   printer_vars, lock_vars, cur, left, job, caller_vars,
                   history_vars>>

\* -------------------------------------------------------------------- auth
\* what Auth::validate_token can say of a token: (is_valid, is_timeout)
TokenChecks == BOOLEAN \X BOOLEAN

\* a validate_token that looks at is_valid first
validate_token_valid_first(is_valid, is_timeout) ==
    IF ~is_valid THEN "AuthTokenInvalid"
    ELSE IF is_timeout THEN "AuthTokenTimeout"
    ELSE "None"

\* Instance::validate_token: "return timeout error", then "return invalid
\* error"
validate_token(is_valid, is_timeout) ==
    IF is_timeout THEN "AuthTokenTimeout"
    ELSE IF ~is_valid THEN "AuthTokenInvalid"
    ELSE "None"

\* Instance::validate_token_state, "validate state": the match on
\* Printer::state()
StateError ==
    CASE state = "Error" -> error_code
      [] state = "Shutdown" -> "ShutdownState"
      [] state = "Startup" -> "StartupState"
      [] state = "Ready" -> "None"

\* Instance::validate_token_state: a token error returns at once, a good
\* token goes on to read the state under the read lock
ValidateTokenState(is_valid, is_timeout) ==
    /\ token_reply = NoReply
    /\ LET err == validate_token(is_valid, is_timeout)
       IN  /\ (err = "None") => CanRead
           /\ token_reply' = [is_valid |-> is_valid, is_timeout |-> is_timeout,
                              err |-> IF err # "None" THEN err ELSE StateError]
    /\ UNCHANGED <<action_state_vars, aq_suspended, inner_vars, vm_suspended,
                   printer_vars, sent, lock_vars, task_vars, caller_vars,
                   history_vars, file_vars, config_vars, gcode_vars>>

\* the caller takes the reply
TokenReturn ==
    /\ token_reply # NoReply
    /\ token_reply' = NoReply
    /\ UNCHANGED <<action_state_vars, aq_suspended, inner_vars, vm_suspended,
                   printer_vars, sent, lock_vars, task_vars, caller_vars,
                   history_vars, file_vars, config_vars, gcode_vars>>

\* ------------------------------------------------------------------- files
\* the Printer, the token service and the config parser, which files.rs
\* does not touch
printer_world == <<action_state_vars, aq_suspended, inner_vars, vm_suspended,
                   printer_vars, sent, lock_vars, task_vars, caller_vars,
                   history_vars, token_reply, config_vars, gcode_vars>>

\* ... and the registry of handlers
printer_world_handlers == <<printer_world, handlers, handler_log>>

\* the files on disk and what has been read from them
disk_vars == <<disk, reading, content, processed, open_after>>

\* Path::starts_with: base is p or an ancestor of p, by whole components
starts_with(p, base) ==
    /\ Len(base) <= Len(p)
    /\ SubSeq(p, 1, Len(base)) = base

\* Path::canonicalize: fails for a path that does not exist, drops "."
canonicalize(filename) ==
    IF filename = Missing THEN NoPath
    ELSE SelectSeq(filename, LAMBDA comp : comp # ".")

\* HashMap::insert
insert(map, key, value) ==
    [k \in DOMAIN map \cup {key} |-> IF k = key THEN value ELSE map[k]]

\* a removal that takes the entries below the path with it
remove_below(map, paths) ==
    [k \in {q \in DOMAIN map : \A p \in paths : ~starts_with(q, p)} |-> map[k]]

\* "uncache gcode files if modified or removed": HashMap::remove for each
\* path of the event
remove(map, paths) ==
    [k \in DOMAIN map \ paths |-> map[k]]

\* open_gcode_file is called; canonicalize()? returns the error of a path
\* that does not exist
OpenCall(c, filename) ==
    /\ opens < MaxOpens
    /\ open_pc[c] = "idle"
    /\ opens' = opens + 1
    /\ LET path == canonicalize(filename) IN
        /\ open_path' = [open_path EXCEPT ![c] = path]
        /\ IF path = NoPath
           THEN /\ open_pc' = [open_pc EXCEPT ![c] = "done"]
                /\ open_got' = [open_got EXCEPT ![c] = Err(NoPath)]
           ELSE /\ open_pc' = [open_pc EXCEPT ![c] = "lock"]
                /\ open_got' = [open_got EXCEPT ![c] = NoResult]
        /\ open_after' = [open_after EXCEPT
                             ![c] = IF path \in Paths THEN processed[path]
                                    ELSE 0]
    /\ UNCHANGED <<printer_world_handlers, cache, watched, requests, results,
                   rw_holder, parse_pc, parse_filename, parses, event, events,
                   disk, reading, content, processed>>

\* open_gcode_file: "acquire lock", "request file"
OpenSend(c) ==
    /\ open_pc[c] = "lock"
    /\ rw_holder = "none"
    /\ rw_holder' = c
    /\ requests' = Append(requests, open_path[c])
    /\ open_pc' = [open_pc EXCEPT ![c] = "recv"]
    /\ UNCHANGED <<printer_world_handlers, disk_vars, cache, watched, results, parse_pc,
                   parse_filename, parses, event, events, open_path, open_got,
                   opens>>

\* open_gcode_file: "recieve result", the guard is dropped on return
OpenRecv(c) ==
    /\ open_pc[c] = "recv"
    /\ results # <<>>
    /\ open_got' = [open_got EXCEPT ![c] = Head(results)]
    /\ results' = Tail(results)
    /\ rw_holder' = IF rw_holder = c THEN "none" ELSE rw_holder
    /\ open_pc' = [open_pc EXCEPT ![c] = "done"]
    /\ UNCHANGED <<printer_world_handlers, disk_vars, cache, watched, requests, parse_pc,
                   parse_filename, parses, event, events, open_path, opens>>

\* the caller has its result
OpenReturn(c) ==
    /\ open_pc[c] = "done"
    /\ open_pc' = [open_pc EXCEPT ![c] = "idle"]
    /\ open_path' = [open_path EXCEPT ![c] = NoPath]
    /\ open_got' = [open_got EXCEPT ![c] = NoResult]
    /\ UNCHANGED <<printer_world_handlers, disk_vars, cache, watched, requests, results,
                   rw_holder, parse_pc, parse_filename, parses, event, events,
                   opens>>

\* the future of open_gcode_file is dropped while it waits at
\* recv.recv().await (the HTTP server drops the handler's future when its
\* client goes away): the guard is dropped, the request stays sent
OpenDrop(c) ==
    /\ open_pc[c] = "recv"
    /\ rw_holder' = IF rw_holder = c THEN "none" ELSE rw_holder
    /\ open_pc' = [open_pc EXCEPT ![c] = "idle"]
    /\ open_path' = [open_path EXCEPT ![c] = NoPath]
    /\ UNCHANGED <<printer_world_handlers, disk_vars, cache, watched, requests, results,
                   parse_pc, parse_filename, parses, event, events, open_got,
                   opens>>

\* the parse task receives a request: a cached file is sent back at once;
\* try_parse_file reads what the file holds
ParseRecv ==
    /\ parse_pc = "recv"
    /\ requests # <<>>
    /\ requests' = Tail(requests)
    /\ LET filename == Head(requests) IN
        IF filename \in DOMAIN cache
        THEN /\ results' = Append(results, cache[filename])
             /\ UNCHANGED <<parse_pc, parse_filename>>
        ELSE /\ parse_pc' = "parse"
             /\ parse_filename' = filename
             /\ UNCHANGED results
    /\ reading' = IF Head(requests) \in DOMAIN cache THEN reading
                  ELSE disk[Head(requests)]
    /\ UNCHANGED <<printer_world_handlers, cache, watched, rw_holder, parses, event,
                   events, open_pc, open_path, open_got, opens, disk, content,
                   processed, open_after>>

\* try_parse_file has returned: a file that parsed is cached; the path is
\* watched and the result sent.  A directory can be opened, not read.
ParseDone(parsed) ==
    /\ parse_pc = "parse"
    /\ parsed => parse_filename # Dir
    /\ LET re == IF parsed THEN Ok(parse_filename, parses + 1)
                 ELSE Err(parse_filename)
       IN  /\ cache' = IF parsed THEN insert(cache, parse_filename, re)
                       ELSE cache
           /\ results' = Append(results, re)
    /\ parses' = IF parsed THEN parses + 1 ELSE parses
    /\ content' = IF parsed THEN Append(content, reading) ELSE content
    /\ watched' = watched \cup {parse_filename}
    /\ parse_pc' = "recv"
    /\ parse_filename' = NoPath
    /\ UNCHANGED <<printer_world_handlers, requests, rw_holder, event, events,
                   open_pc, open_path, open_got, opens, disk, reading,
                   processed, open_after>>

\* enum notify::EventKind
EventKinds == {"Access", "Create", "Modify", "Remove"}

\* the events the watcher can report: about watched paths, and about the
\* entries of a watched directory
Events ==
    [kind : EventKinds,
     paths : {ps \in SUBSET Paths :
                /\ ps # {}
                /\ \A p \in ps : \E w \in watched : starts_with(p, w)}]

\* Vec::swap_remove: the last element takes the place of the removed one
swap_remove(list, i) ==
    IF i = Len(list) THEN SubSeq(list, 1, Len(list) - 1)
    ELSE [SubSeq(list, 1, Len(list) - 1) EXCEPT ![i] = list[Len(list)]]

\* a loop that steps on after a removal
after_remove_incremented(i) == i + 1

\* "continue to next handler without incrementing"
after_remove(i) == i

\* "loop handlers" from index i on (counted from 1): a handler whose path
\* is an ancestor of a path of the event is called; retain[id] tells whether
\* its callback returns true; if not, unwatch its path and swap_remove it
RECURSIVE loop_handlers(_, _, _, _, _)
loop_handlers(list, i, paths, retain, out) ==
    IF i > Len(list) THEN [out EXCEPT !.handlers = list]
    ELSE LET path == list[i].path
             id == list[i].id
             called == \E p \in paths : starts_with(p, path)
         IN  IF called /\ ~retain[id]
             THEN loop_handlers(swap_remove(list, i), after_remove(i), paths,
                                retain,
                                [out EXCEPT !.invoked = @ \cup {id},
                                            !.unwatched = @ \cup {path}])
             ELSE loop_handlers(list, i + 1, paths, retain,
                                IF called
                                THEN [out EXCEPT !.invoked = @ \cup {id}]
                                ELSE out)

\* the file-change task handles one event: uncache, then invoke handlers
handle_event(e) ==
    /\ events < MaxEvents
    /\ events' = events + 1
    /\ event' = e
    /\ cache' = IF e.kind \in {"Modify", "Remove"} THEN remove(cache, e.paths)
                ELSE cache
    /\ \E retain \in [{handlers[i].id : i \in 1..Len(handlers)} -> BOOLEAN] :
        LET out == loop_handlers(handlers, 1, e.paths, retain,
                                 [handlers |-> <<>>, invoked |-> {},
                                  unwatched |-> {}])
        IN  /\ handlers' = out.handlers
            /\ watched' = watched \ out.unwatched
            /\ handler_log' =
                    [handler_log EXCEPT
                        !.invoked = out.invoked,
                        !.returned = [id \in out.invoked |-> retain[id]]]
    /\ processed' = [p \in Paths |->
                        IF e.kind \in {"Modify", "Remove"} /\ p \in e.paths
                        THEN disk'[p] ELSE processed[p]]
    /\ UNCHANGED <<printer_world, requests, results, rw_holder,
                   parse_pc, parse_filename, parses, open_pc, open_path,
                   open_got, opens, content, open_after>>

\* an event reaches the file-change task
FileEvent(e) ==
    /\ UNCHANGED <<disk, reading>>
    /\ handle_event(e)

\* a file is written while the worker runs: a parse of it that is in
\* progress has read the old content or goes on to read the new one; if
\* the path is watched the Modify event reaches the file-change task
FileChange(path) ==
    /\ disk[path] < MaxEdits
    /\ disk' = [disk EXCEPT ![path] = @ + 1]
    /\ \E now \in BOOLEAN :
        reading' = IF parse_pc = "parse" /\ parse_filename = path /\ now
                   THEN disk'[path] ELSE reading
    /\ IF path \in watched
       THEN handle_event([kind |-> "Modify", paths |-> {path}])
       ELSE UNCHANGED <<printer_world_handlers, cache, watched, requests,
                        results, rw_holder, parse_pc, parse_filename, parses,
                        event, events, open_pc, open_path, open_got, opens,
                        content, processed, open_after>>

\* files::watch: the pair is pushed to HANDLERS; no watch is set up
Watch(path) ==
    /\ handler_log.registered < MaxHandlers
    /\ handlers' = Append(handlers, [path |-> path,
                                     id |-> handler_log.registered + 1])
    /\ handler_log' = [handler_log EXCEPT !.registered = @ + 1]
    /\ UNCHANGED <<printer_world, disk_vars, cache, watched, requests,
                   results, rw_holder, parse_pc, parse_filename, parses,
                   event, events, open_pc, open_path, open_got, opens>>

\* both files have been opened, parsed, cached and are watched
InitWatching ==
    /\ InitPrinter
    /\ InitGcode
    /\ cfg_data = <<>>
    /\ cfg_out = NotParsed
    /\ token_reply = NoReply
    /\ cache = insert(insert(EmptyCache, FileB, Ok(FileB, 1)),
                      FileA, Ok(FileA, 2))
    /\ watched = {FileA, FileB}
    /\ requests = <<>>
    /\ results = <<>>
    /\ rw_holder = "none"
    /\ parse_pc = "recv"
    /\ parse_filename = NoPath
    /\ parses = 2
    /\ event = NoEvent
    /\ events = 0
    /\ open_pc = [c \in Callers |-> "idle"]
    /\ open_path = [c \in Callers |-> NoPath]
    /\ open_got = [c \in Callers |-> NoResult]
    /\ opens = 2
    /\ handlers = <<>>
    /\ handler_log = NoCalls
    /\ disk = [p \in Paths |-> 0]
    /\ reading = 0
    /\ content = <<0, 0>>
    /\ processed = [p \in Paths |-> 0]
    /\ open_after = [c \in Callers |-> 0]

\* a.gcode has been opened once and its parse failed: the path is watched,
\* nothing is cached; calls and events are counted from here
InitStale ==
    /\ InitPrinter
    /\ InitGcode
    /\ cfg_data = <<>>
    /\ cfg_out = NotParsed
    /\ token_reply = NoReply
    /\ cache = EmptyCache
    /\ watched = {FileA}
    /\ requests = <<>>
    /\ results = <<>>
    /\ rw_holder = "none"
    /\ parse_pc = "recv"
    /\ parse_filename = NoPath
    /\ parses = 0
    /\ event = NoEvent
    /\ events = 0
    /\ open_pc = [c \in Callers |-> "idle"]
    /\ open_path = [c \in Callers |-> NoPath]
    /\ open_got = [c \in Callers |-> NoResult]
    /\ opens = 0
    /\ handlers = <<>>
    /\ handler_log = NoCalls
    /\ disk = [p \in Paths |-> 0]
    /\ reading = 0
    /\ content = <<>>
    /\ processed = [p \in Paths |-> 0]
    /\ open_after = [c \in Callers |-> 0]

\* opens that run to their end, the parse task, files that change
NextStale ==
    \/ \E c \in Callers :
        \/ \E filename \in {FileA, FileB} : OpenCall(c, filename)
        \/ OpenSend(c)
        \/ OpenRecv(c)
        \/ OpenReturn(c)
    \/ ParseRecv
    \/ \E parsed \in BOOLEAN : ParseDone(parsed)
    \/ \E path \in {FileA, FileB} : FileChange(path)

SpecStale == InitStale /\ [][NextStale]_vars

NextHandlers ==
    \/ \E path \in Paths : Watch(path)
    \/ \E e \in Events : FileEvent(e)

SpecHandlers == InitWatching /\ [][NextHandlers]_vars

\* ------------------------------------------------------------------ config
Whitespace == {" ", "\r", "\t"}

\* the digits of the inputs
Digits == {"0", "2"}

\* StreamCtx::peek; "EOF" stands for None
peek(data, pointer) ==
    IF pointer >= Len(data) THEN "EOF" ELSE data[pointer + 1]

\* StreamCtx::next_char: the pointer after it
next_char(data, pointer) ==
    IF pointer >= Len(data) THEN pointer ELSE pointer + 1

\* a context that leaves the pointer where it is
drop_keeps(init_pointer, finish, pointer) == pointer

\* Drop for StreamCtx: an unfinished context puts the pointer back
drop(init_pointer, finish, pointer) ==
    IF finish THEN pointer ELSE init_pointer

\* return Ok(v) after stream.finish()
ParseOk(init_pointer, pointer, v) ==
    [r |-> "Ok", v |-> v, p |-> drop(init_pointer, TRUE, pointer)]

\* return Err(ParseError) from a context that had finished
ParseErrFinished(init_pointer, pointer) ==
    [r |-> "Err", v |-> <<>>, p |-> drop(init_pointer, TRUE, pointer)]

\* return Err(ParseError) from a context that has not finished
ParseErr(init_pointer, pointer) ==
    [r |-> "Err", v |-> <<>>, p |-> drop(init_pointer, FALSE, pointer)]

\* enum Value; a Number is n / 1, a Ratio n / d
Value(kind, text, n, d) == [kind |-> kind, s |-> text, n |-> n, d |-> d]

\* Whitspaces::parse: the pointer after it (it cannot fail)
RECURSIVE WhitspacesParse(_, _)
WhitspacesParse(data, pointer) ==
    IF peek(data, pointer) \in Whitespace
    THEN WhitspacesParse(data, pointer + 1)
    ELSE pointer

\* fast_float::parse_partial on digits: the length it takes
RECURSIVE DigitRun(_, _)
DigitRun(data, pointer) ==
    IF peek(data, pointer) \in Digits THEN 1 + DigitRun(data, pointer + 1)
    ELSE 0

\* ... and the number it returns
RECURSIVE Decimal(_)
Decimal(digits) ==
    IF digits = <<>> THEN 0
    ELSE 10 * Decimal(SubSeq(digits, 1, Len(digits) - 1))
            + (IF digits[Len(digits)] = "2" THEN 2 ELSE 0)

\* Number::parse
NumberParse(data, pointer) ==
    LET l == DigitRun(data, pointer) IN
    IF l = 0 THEN ParseErr(pointer, pointer)
    ELSE ParseOk(pointer, pointer + l,
                 Decimal(SubSeq(data, pointer + 1, pointer + l)))

\* Ratio::parse
RECURSIVE RatioParse(_, _)
RatioParse(data, pointer) ==
    LET a == NumberParse(data, pointer) IN
    IF a.r # "Ok" THEN ParseErr(pointer, a.p)
    ELSE IF peek(data, a.p) # ":"
    THEN ParseErr(pointer, next_char(data, a.p))
    ELSE LET b == NumberParse(data, a.p + 1) IN
    IF b.r # "Ok" THEN ParseErr(pointer, b.p)
    ELSE LET w == WhitspacesParse(data, b.p) IN
    IF peek(data, w) = ","
    THEN LET n == RatioParse(data, WhitspacesParse(data, w + 1)) IN
         IF n.r # "Ok" THEN ParseErr(pointer, n.p)
         ELSE ParseOk(pointer, n.p, [n |-> a.v * n.v.n, d |-> b.v * n.v.d])
    ELSE ParseOk(pointer, w, [n |-> a.v, d |-> b.v])

\* LineEndComment::parse: next_char takes the character after the
\* whitespace whatever it is; after a ';' the loop ends at a line end only
LineEndCommentParse(data, pointer) ==
    LET w == WhitspacesParse(data, pointer)
        after == next_char(data, w)
        ends == {i \in (after + 1)..Len(data) : data[i] = "\n"}
    IN  IF peek(data, w) # ";" THEN ParseOk(pointer, after, <<>>)
        ELSE IF ends = {} THEN [r |-> "Loop", v |-> <<>>, p |-> Len(data)]
        ELSE ParseOk(pointer, (CHOOSE i \in ends : \A j \in ends : i <= j) - 1,
                     <<>>)

\* NumberOrRatioValue::parse
NumberOrRatioValueParse(data, pointer) ==
    LET ratio == RatioParse(data, pointer)
        number == NumberParse(data, ratio.p)
        value == IF ratio.r = "Ok"
                 THEN [ratio EXCEPT !.v = Value("Ratio", <<>>, @.n, @.d)]
                 ELSE [number EXCEPT !.v = Value("Number", <<>>, @, 1)]
    IN  IF value.r # "Ok" THEN ParseErr(pointer, value.p)
        ELSE LET comment == LineEndCommentParse(data, value.p) IN
        IF comment.r = "Loop" THEN comment
        ELSE IF peek(data, comment.p) # "\n"
        THEN ParseErr(pointer, next_char(data, comment.p))
        ELSE ParseOk(pointer, comment.p + 1, value.v)

\* "read all characters in string", "break at new line": the pointer after
RECURSIVE LineEnd(_, _)
LineEnd(data, pointer) ==
    IF peek(data, pointer) = "EOF" THEN pointer
    ELSE IF peek(data, pointer) = "\n" THEN pointer + 1
    ELSE LineEnd(data, pointer + 1)

\* ... and the characters pushed: those before the first ';'
RECURSIVE LineText(_, _)
LineText(data, pointer) ==
    IF peek(data, pointer) \in {"EOF", "\n", ";"} THEN <<>>
    ELSE <<peek(data, pointer)>> \o LineText(data, pointer + 1)

\* "pop off whitespaces at the end"
RECURSIVE PopWhitespace(_)
PopWhitespace(text) ==
    IF text # <<>> /\ text[Len(text)] \in Whitespace
    THEN PopWhitespace(SubSeq(text, 1, Len(text) - 1))
    ELSE text

\* GcodeLine::parse
GcodeLineParse(data, pointer) ==
    ParseOk(pointer, LineEnd(data, pointer),
            PopWhitespace(LineText(data, pointer)))

\* EmptyLine::parse
EmptyLineParse(data, pointer) ==
    IF peek(data, pointer) = "\n" THEN ParseOk(pointer, pointer + 1, <<>>)
    ELSE ParseErr(pointer, next_char(data, pointer))

\* Comment::parse
CommentParse(data, pointer) ==
    IF peek(data, pointer) = "#"
    THEN ParseOk(pointer, LineEnd(data, pointer + 1), <<>>)
    ELSE ParseErr(pointer, next_char(data, pointer))

\* Gcode::parse, the loop
RECURSIVE GcodeLoop(_, _, _)
GcodeLoop(data, pointer, lines) ==
    IF peek(data, pointer) = " "
    THEN LET empty == EmptyLineParse(data, pointer) IN
         IF empty.r = "Ok" THEN GcodeLoop(data, empty.p, lines)
         ELSE LET line == GcodeLineParse(data, WhitspacesParse(data, empty.p))
              IN  GcodeLoop(data, line.p, lines \o line.v \o <<"\n">>)
    ELSE IF peek(data, pointer) = "#"
    THEN GcodeLoop(data, CommentParse(data, pointer).p, lines)
    ELSE IF peek(data, pointer) = "\n"
    THEN GcodeLoop(data, pointer + 1, lines)
    ELSE [lines |-> lines, p |-> pointer]

\* Gcode::parse
GcodeParse(data, pointer) ==
    LET block == GcodeLoop(data, pointer, <<>>)
    IN  ParseOk(pointer, block.p, block.lines)

\* Value::parse
ValueParse(data, pointer) ==
    LET c == peek(data, pointer)
        attempt == IF c \in Digits THEN NumberOrRatioValueParse(data, pointer)
                   ELSE ParseErr(pointer, pointer)
    IN  IF c = "\n"
        THEN IF peek(data, pointer + 1) = " "
             THEN LET gcode == GcodeParse(data, pointer + 1)
                  IN  ParseOk(pointer, gcode.p, Value("Gcode", gcode.v, 0, 1))
             ELSE ParseOk(pointer, pointer + 1, Value("String", <<>>, 0, 1))
        ELSE IF c = "EOF"
        THEN ParseOk(pointer, pointer, Value("String", <<>>, 0, 1))
        ELSE IF attempt.r # "Err" THEN attempt
        ELSE ParseOk(pointer, LineEnd(data, attempt.p),
                     Value("String",
                           PopWhitespace(LineText(data, attempt.p)), 0, 1))

\* the texts of at most n characters
Strings(chars, n) == UNION {[1..k -> chars] : k \in 0..n}

\* unicode_id_start::is_id_start, is_id_continue on the bytes of the inputs
IdStart == {"a"}

IdContinue == {"a", "0", "2"}

\* "while let Some(c) = stream.peek()", "if !is_id_continue": the pointer
\* after the identifier
RECURSIVE IdentEnd(_, _)
IdentEnd(data, pointer) ==
    IF peek(data, pointer) \in IdContinue THEN IdentEnd(data, pointer + 1)
    ELSE pointer

\* Ident::parse
IdentParse(data, pointer) ==
    IF peek(data, pointer) \in IdStart
    THEN ParseOk(pointer, IdentEnd(data, pointer + 1), <<>>)
    ELSE ParseErr(pointer, next_char(data, pointer))

\* Comments::parse: the pointer after it (it cannot fail)
RECURSIVE CommentsParse(_, _)
CommentsParse(data, pointer) ==
    LET comment == CommentParse(data, pointer)
        empty == EmptyLineParse(data, pointer)
    IN  IF comment.r = "Ok" THEN CommentsParse(data, comment.p)
        ELSE IF empty.r = "Ok" THEN CommentsParse(data, empty.p)
        ELSE pointer

\* a parser that has not returned: r is "Loop" for a loop that never ends,
\* "Panic" for a panic
NoReturn(r, pointer) == [r |-> r, v |-> <<>>, p |-> pointer]

\* the end of a production whose body came to re: stream.finish() and
\* return Ok, or the `?` that returns the error of the body
Returned(init_pointer, re) ==
    IF re.r = "Ok" THEN ParseOk(init_pointer, re.p, <<>>)
    ELSE IF re.r = "Err" THEN ParseErr(init_pointer, re.p)
    ELSE NoReturn(re.r, re.p)

RECURSIVE KeyValuesLoop(_, _)

\* KeyValues::parse, after "parse value": the `?`, "parse comments", the
\* next turn of the loop
KeyInsert(data, value) ==
    IF value.r # "Ok" THEN [r |-> value.r, p |-> value.p]
    ELSE KeyValuesLoop(data, CommentsParse(data, value.p))

\* KeyValues::parse, "while !stream.is_eof()"
KeyValuesLoop(data, pointer) ==
    IF pointer >= Len(data) \/ peek(data, pointer) = "["
    THEN [r |-> "Ok", p |-> pointer]
    ELSE LET key == IdentParse(data, pointer)
             colon == WhitspacesParse(data, key.p)
         IN  IF key.r # "Ok" THEN [r |-> "Err", p |-> key.p]
             ELSE IF peek(data, colon) # ":"
             THEN [r |-> "Err", p |-> next_char(data, colon)]
             ELSE KeyInsert(data,
                            ValueParse(data,
                                       WhitspacesParse(data, colon + 1)))

\* KeyValues::parse
KeyValuesParse(data, pointer) ==
    Returned(pointer, KeyValuesLoop(data, CommentsParse(data, pointer)))

\* Section::parse: after the header and the whitespace behind it,
\* stream.peek().unwrap() panics at the end of the input
SectionParse(data, pointer) ==
    LET prefix_name == IdentParse(data, pointer + 1)
        suffix_name == IdentParse(data, prefix_name.p + 1)
        c == peek(data, prefix_name.p)
        header == IF c = " " THEN suffix_name.p + 1 ELSE prefix_name.p + 1
        line == WhitspacesParse(data, header)
    IN  IF peek(data, pointer) # "[" \/ prefix_name.r # "Ok"
        THEN ParseErr(pointer, pointer)
        ELSE IF c \notin {" ", "]"} THEN ParseErr(pointer, pointer)
        ELSE IF c = " " /\ (suffix_name.r # "Ok"
                              \/ peek(data, suffix_name.p) # "]")
        THEN ParseErr(pointer, pointer)
        ELSE IF peek(data, line) = "EOF" THEN NoReturn("Panic", line)
        ELSE IF peek(data, line) # "\n" THEN ParseErr(pointer, line + 1)
        ELSE Returned(pointer, KeyValuesParse(data, line + 1))

RECURSIVE ConfigLoop(_, _)

\* Config::parse, after Section::parse: the `?`, sections.push,
\* Whitspaces::parse, the next turn of the loop
SectionsPush(data, section) ==
    IF section.r # "Ok" THEN [r |-> section.r, p |-> section.p]
    ELSE ConfigLoop(data, WhitspacesParse(data, section.p))

\* Config::parse, "parse sections"
ConfigLoop(data, pointer) ==
    IF pointer >= Len(data) THEN [r |-> "Ok", p |-> pointer]
    ELSE SectionsPush(data, SectionParse(data, pointer))

\* Config::parse
ConfigParse(data, pointer) ==
    Returned(pointer, ConfigLoop(data, CommentsParse(data, pointer)))

\* the bytes of section headers, and of the keys and values below them
HeaderChars == {"[", "a", "]"}

BodyChars == {"a", ":", "2", ";", "\n"}

\* a stream over the text of a printer.cfg: a header, the end of its line
\* or none, keys and values
InitConfigFile ==
    /\ InitPrinter
    /\ InitService
    /\ InitGcode
    /\ cfg_data \in {header \o line_end \o body :
                        header \in Strings(HeaderChars, MaxHeaderLen),
                        line_end \in Strings({"\n"}, 1),
                        body \in Strings(BodyChars, MaxBodyLen)}
    /\ cfg_out = NotParsed

\* Config::parse is called on the stream
CallConfigParse ==
    /\ cfg_out = NotParsed
    /\ LET re == ConfigParse(cfg_data, 0)
       IN  cfg_out' = [by |-> "Config", r |-> re.r, v |-> re.v, p |-> re.p]
    /\ UNCHANGED <<action_state_vars, aq_suspended, inner_vars, vm_suspended,
                   printer_vars, sent, lock_vars, task_vars, caller_vars,
                   history_vars, token_reply, file_vars, cfg_data,
                   gcode_vars>>

SpecConfigFile == InitConfigFile /\ [][CallConfigParse]_vars

\* config values, and blocks of G-code lines
ConfigInputs ==
    Strings({"0", "2", ":", " ", ";", "s", "\n"}, MaxValueLen)
        \cup Strings({" ", "#", "G", ";", "\n"}, MaxGcodeLen)

\* a stream over a text, with no parser called on it
InitConfig ==
    /\ InitPrinter
    /\ InitService
    /\ InitGcode
    /\ cfg_data \in ConfigInputs
    /\ cfg_out = NotParsed

\* Value::parse is called on the stream
CallValueParse ==
    /\ cfg_out = NotParsed
    /\ LET re == ValueParse(cfg_data, 0)
       IN  cfg_out' = [by |-> "Value", r |-> re.r, v |-> re.v, p |-> re.p]
    /\ UNCHANGED <<action_state_vars, aq_suspended, inner_vars, vm_suspended,
                   printer_vars, sent, lock_vars, task_vars, caller_vars,
                   history_vars, token_reply, file_vars, cfg_data,
                   gcode_vars>>

\* Gcode::parse is called on the stream
CallGcodeParse ==
    /\ cfg_out = NotParsed
    /\ LET re == GcodeParse(cfg_data, 0)
       IN  cfg_out' = [by |-> "Gcode", r |-> re.r, v |-> re.v, p |-> re.p]
    /\ UNCHANGED <<action_state_vars, aq_suspended, inner_vars, vm_suspended,
                   printer_vars, sent, lock_vars, task_vars, caller_vars,
                   history_vars, token_reply, file_vars, cfg_data,
                   gcode_vars>>

\* the productions that can return Err, by name
Productions == {"Number", "Ratio", "NumberOrRatioValue", "EmptyLine", "Comment"}

\* <P as Parser>::parse
parse(production, data, pointer) ==
    CASE production = "Number" -> NumberParse(data, pointer)
      [] production = "Ratio" -> RatioParse(data, pointer)
      [] production = "NumberOrRatioValue" ->
            NumberOrRatioValueParse(data, pointer)
      [] production = "EmptyLine" -> EmptyLineParse(data, pointer)
      [] production = "Comment" -> CommentParse(data, pointer)

\* a stream over the text of a key's value, comments included
InitProductions ==
    /\ InitPrinter
    /\ InitService
    /\ InitGcode
    /\ cfg_data \in Strings({"2", ":", " ", ";", "s", "#", "\n"}, MaxValueLen)
    /\ cfg_out = NotParsed

\* a production is called where KeyValues::parse calls Value::parse: after
\* Whitspaces::parse has taken the whitespace the stream begins with
CallParse(production) ==
    /\ cfg_out = NotParsed
    /\ LET entry == WhitspacesParse(cfg_data, 0)
           re == parse(production, cfg_data, entry)
       IN  cfg_out' = [by |-> production, r |-> re.r, v |-> re.v, p |-> re.p,
                       entry |-> entry]
    /\ UNCHANGED <<action_state_vars, aq_suspended, inner_vars, vm_suspended,
                   printer_vars, sent, lock_vars, task_vars, caller_vars,
                   history_vars, token_reply, file_vars, cfg_data,
                   gcode_vars>>

\* ---------------------------------------------------------------- g1.rs
\* a parameter of a G0/G1 line: its first character and the text after it
Params ==
    [l : {"X", "x", "Z", "z", "E", "F", "f", "Q"}, v : {"12", "600", "abc"}]

\* fast_float::parse on the text of a parameter: the number, or an error
fast_float_parse(text) ==
    CASE text = "12" -> [ok |-> TRUE, f |-> F(12)]
      [] text = "600" -> [ok |-> TRUE, f |-> F(600)]
      [] OTHER -> [ok |-> FALSE, f |-> NaN]

\* handler_inner, one iteration of "for param in params": the field the
\* first character selects is set to the number, `?` returns the error of
\* fast_float::parse.  F is in mm/min: F / 60.0 is F / 6 tenths of mm/s.
handler_param(re, param) ==
    LET val == fast_float_parse(param.v)
        field == CASE param.l \in {"X", "x"} -> "x"
                   [] param.l \in {"Y", "y"} -> "y"
                   [] param.l \in {"Z"} -> "z"
                   [] param.l \in {"E", "e"} -> "e"
                   [] param.l \in {"F", "f"} -> "target_velocity"
                   [] OTHER -> "none"
    IN  IF ~re.ok \/ field = "none" THEN re
        ELSE IF ~val.ok THEN [re EXCEPT !.ok = FALSE]
        ELSE IF field = "target_velocity"
        THEN [re EXCEPT !.mv.target_velocity = F(val.f.v \div 6)]
        ELSE [re EXCEPT !.mv[field] = val.f]

RECURSIVE handler_params(_, _)
handler_params(re, params) ==
    IF params = <<>> THEN re
    ELSE handler_params(handler_param(re, Head(params)), Tail(params))

\* handler_inner: the Actions it hands to ActionQueue::push, and its result
handler_inner(params) ==
    LET re == handler_params(
                [ok |-> TRUE,
                 mv |-> [start_velocity |-> NaN, target_velocity |-> NaN,
                         x |-> NaN, y |-> NaN, z |-> NaN, e |-> NaN]],
                params)
        move_ == re.mv
    IN  IF ~re.ok THEN [r |-> "Err", pushed |-> <<>>]
        ELSE IF is_nan(move_.x) /\ is_nan(move_.y) /\ is_nan(move_.z)
                /\ is_nan(move_.e)
        THEN IF ~is_nan(move_.target_velocity)
             THEN [r |-> "Ok",
                   pushed |-> <<[k |-> "SetVelocity",
                                 f |-> move_.target_velocity]>>]
             ELSE [r |-> "Ok", pushed |-> <<>>]
        ELSE [r |-> "Ok", pushed |-> <<[k |-> "Move", mv |-> move_]>>]

\* a G0/G1 line with its parameters, the handler not yet called
InitG1 ==
    /\ InitPrinter
    /\ InitService
    /\ cfg_data = <<>>
    /\ cfg_out = NotParsed
    /\ g1_params \in UNION {[1..n -> Params] : n \in 0..MaxParams}
    /\ g1_out = [r |-> "none", pushed |-> <<>>]
    /\ gf_lines = <<>>
    /\ gf_out = [r |-> "none", thumbnails |-> <<>>, commands |-> <<>>,
                 meta |-> <<>>]
    /\ script_line = <<>>

\* GcodeVM::run_gcode calls the handler of g0/g1 with the parameters
CallHandler ==
    /\ g1_out.r = "none"
    /\ g1_out' = handler_inner(g1_params)
    /\ UNCHANGED <<action_state_vars, aq_suspended, inner_vars, vm_suspended,
                   printer_vars, sent, lock_vars, task_vars, caller_vars,
                   history_vars, token_reply, file_vars, config_vars,
                   g1_params, gf_lines, gf_out, script_line>>

\* ------------------------------------------------------------- parser.rs
\* what a line of a G-code file is to the grammar: a thumbnail begin line,
\* a base64 continuation line, a thumbnail end line, a G-code line or a
\* metadata line
Rule == {"ThumbnailInfo", "ThumbnailLine", "ThumbnailEnd", "GcodeLine", "Meta"}

\* "parse thumbnail data lines": the inner loop reads from line j on; the
\* line that is not a data line is read into the loop's own buffer, tried as
\* the end line, and the loop breaks; next is the line read after it
RECURSIVE thumbnail_data(_, _, _)
thumbnail_data(lines, j, base64_data) ==
    IF j > Len(lines)
    THEN [ended |-> FALSE, next |-> j, base64_data |-> base64_data]
    ELSE IF lines[j] = "ThumbnailLine"
    THEN thumbnail_data(lines, j + 1, Append(base64_data, j))
    ELSE [ended |-> lines[j] = "ThumbnailEnd", next |-> j + 1,
          base64_data |-> base64_data]

\* "parse each line": the outer loop from line i on; lines are named by
\* their numbers
RECURSIVE parse_each_line(_, _, _)
parse_each_line(lines, i, gcode_file) ==
    IF i > Len(lines) THEN gcode_file
    ELSE IF lines[i] = "ThumbnailInfo"
    THEN LET t == thumbnail_data(lines, i + 1, <<>>) IN
         parse_each_line(lines, t.next,
            IF t.ended
            THEN [gcode_file EXCEPT !.thumbnails =
                    Append(@, [info |-> i, data |-> t.base64_data])]
            ELSE gcode_file)
    ELSE IF lines[i] = "GcodeLine"
    THEN parse_each_line(lines, i + 1,
                         [gcode_file EXCEPT !.commands = Append(@, i)])
    ELSE IF lines[i] = "Meta"
    THEN parse_each_line(lines, i + 1,
                         [gcode_file EXCEPT !.meta = Append(@, i)])
    ELSE parse_each_line(lines, i + 1, gcode_file)

\* GcodeFile::async_parse
async_parse(lines) ==
    parse_each_line(lines, 1,
                    [r |-> "Ok", thumbnails |-> <<>>, commands |-> <<>>,
                     meta |-> <<>>])

\* a G-code file, not parsed yet
InitGcodeFile ==
    /\ InitPrinter
    /\ InitService
    /\ cfg_data = <<>>
    /\ cfg_out = NotParsed
    /\ g1_params = <<>>
    /\ g1_out = [r |-> "none", pushed |-> <<>>]
    /\ gf_lines \in UNION {[1..n -> Rule] : n \in 0..MaxFileLines}
    /\ gf_out = [r |-> "none", thumbnails |-> <<>>, commands |-> <<>>,
                 meta |-> <<>>]
    /\ script_line = <<>>

\* GcodeVM::run_gcode_file or open_gcode_file parses the file
CallAsyncParse ==
    /\ gf_out.r = "none"
    /\ gf_out' = async_parse(gf_lines)
    /\ UNCHANGED <<action_state_vars, aq_suspended, inner_vars, vm_suspended,
                   printer_vars, sent, lock_vars, task_vars, caller_vars,
                   history_vars, token_reply, file_vars, config_vars,
                   g1_params, g1_out, gf_lines, script_line>>

\* ------------------------------------------------------------------ system
\* steps inside ActionQueue::push and ActionQueue::flush
QueueStep ==
    \/ \E t \in Tasks : PushEnter(t)
    \/ \E t \in Tasks : PushMove(t)
    \/ \E t \in Tasks : PushSetVelocity(t)
    \/ \E t \in Tasks : PushSetTemp(t)
    \/ \E t \in Tasks : FlushEnter(t)
    \/ \E t \in Tasks : FlushBody(t)
    \/ \E t \in Tasks : PushWaitSend(t)

\* Instance::emergency_stop, Instance::restart and the restart task
LifecycleStep ==
    \/ EmergencyStopCall
    \/ EmergencyStop
    \/ InstanceRestart
    \/ RestartBegin("ok")
    \/ RestartFinish

\* Printer::restart with a printer.cfg that cannot be opened, read or parsed
ConfigFailureStep ==
    \/ \E f \in ConfigFailures : RestartBegin(f)
    \/ RestartFail

\* Instance::run_gcode
ScriptStep ==
    \/ \E n \in 0..(MaxLines - cmds) : RunGcode(n)
    \/ \E c \in Cmds : StringLine(c)
    \/ StringEnd
    \/ RunGcodeReturn

\* Instance::start_print_job and the print jobs of the event loop
JobStep ==
    \/ SpawnPrintJobPush
    \/ SpawnPrintJobNotify
    \/ \E n \in 0..(MaxFileCmds - cmds) : LoopRunNext(n)
    \/ \E t \in FileTasks, c \in FileCmds : FileLine(t, c)
    \/ \E t \in FileTasks : FileEnd(t)
    \/ \E t \in FileTasks : LoopJobDone(t)
    \/ \E t \in FileTasks : LoopRepost(t)

\* a printer that is driven by run_gcode scripts
NextScripts ==
    QueueStep \/ LifecycleStep \/ ConfigFailureStep \/ ScriptStep \/ LoopForward

SpecScripts == Init /\ [][NextScripts]_vars

\* a printer that is driven by print jobs, its printer.cfg in order
NextJobs == QueueStep \/ LifecycleStep \/ JobStep \/ LoopForward

SpecJobs == Init /\ [][NextJobs]_vars

\* a printer that is driven by run_gcode scripts, whose restarts end as the
\* source has them (todo!()) or as spec.md 4.6 completes them
NextLifecycle == NextScripts \/ RestartTodo

SpecLifecycle == Init /\ [][NextLifecycle]_vars

\* calls of validate_token_state
TokenStep ==
    \/ \E c \in TokenChecks : ValidateTokenState(c[1], c[2])
    \/ TokenReturn

\* a printer that is stopped and restarted while collaborators present
\* their tokens
NextAuth == LifecycleStep \/ ConfigFailureStep \/ RestartTodo \/ TokenStep

SpecAuth == Init /\ [][NextAuth]_vars

\* the callers of open_gcode_file
OpenStep ==
    \/ \E c \in Callers, f \in Filenames : OpenCall(c, f)
    \/ \E c \in Callers : OpenSend(c)
    \/ \E c \in Callers : OpenRecv(c)
    \/ \E c \in Callers : OpenReturn(c)
    \/ \E c \in Callers : OpenDrop(c)

\* the two tasks of the file-watch worker
WorkerStep ==
    \/ ParseRecv
    \/ \E parsed \in BOOLEAN : ParseDone(parsed)
    \/ \E e \in Events : FileEvent(e)

NextFiles == OpenStep \/ WorkerStep

SpecFiles == Init /\ [][NextFiles]_vars

\* the parsers of config/cfg.rs on a text
NextConfig == CallValueParse \/ CallGcodeParse

SpecConfig == InitConfig /\ [][NextConfig]_vars

\* the G0/G1 handler on a line
SpecG1 == InitG1 /\ [][CallHandler]_vars

SpecProductions ==
    InitProductions /\ [][\E production \in Productions : CallParse(production)]_vars

SpecGcodeFile == InitGcodeFile /\ [][CallAsyncParse]_vars

Next ==
    \/ NextLifecycle \/ NextJobs \/ NextAuth \/ NextFiles \/ NextConfig
    \/ CallHandler \/ CallAsyncParse
    \/ \E production \in Productions : CallParse(production)

Spec == Init /\ [][Next]_vars

\* A Ready printer: the state after the first restart task has finished,
\* left alone by emergency_stop and restart.  The runtime keeps polling a
\* task that can run: the event-loop task and the caller inside
\* spawn_print_job take their steps.
InitReady ==
    /\ InitService
    /\ InitGcode
    /\ max_velocity = F(DefaultMaxVelocity)
    /\ absolute_position = FALSE
    /\ absolute_extrution = FALSE
    /\ gcode_line = 0
    /\ gcode_running = FALSE
    /\ x_position = NaN
    /\ y_position = NaN
    /\ z_position = NaN
    /\ e_position = F(0)
    /\ aq_suspended = FALSE
    /\ first_move = None
    /\ first_move_accel = 0
    /\ next_actions = <<>>
    /\ vm_suspended = FALSE
    /\ state = "Ready"
    /\ error_code = "None"
    /\ print_job_queue = <<>>
    /\ event_loop_handle = TRUE
    /\ sent = <<>>
    /\ recv_idx = 0
    /\ lock_readers = {}
    /\ lock_writer = FALSE
    /\ restart_tasks = 0
    /\ cfg_found = "none"
    /\ pc = [t \in Tasks |-> IF t = "loop" THEN "recv" ELSE "none"]
    /\ cur = [t \in Tasks |-> NoAction]
    /\ left = [t \in Tasks |-> 0]
    /\ job = [t \in Tasks |-> 0]
    /\ estop_pc = "idle"
    /\ spawn_pc = "idle"
    /\ runs = 0
    /\ stops = 0
    /\ restarts = 0
    /\ cmds = 0
    /\ accepted = <<>>
    /\ ignored = 0
    /\ failed = {}
    /\ started = <<>>
    /\ next_job_id = 1
    /\ cfg_data = <<>>
    /\ cfg_out = NotParsed

NextReady == QueueStep \/ JobStep \/ LoopForward

\* a Ready printer that runs print jobs while collaborators call run_gcode:
\* both hold the printer's lock for reading
NextPushers == QueueStep \/ ScriptStep \/ JobStep \/ LoopForward

SpecPushers == InitReady /\ [][NextPushers]_vars

\* the characters of a script line: a space, the comment sign, and two
\* letters; the word "G" is registered with a handler that pushes a Move, the
\* word "M" with one that pushes a SetBedTemp, no other word is registered
LineChars == {" ", ";", "G", "M"}

\* a line taken as it is
trim_keeps(line) == line

\* str::trim on a line
trim(line) ==
    LET inked == {i \in 1..Len(line) : line[i] # " "}
    IN  IF inked = {} THEN <<>>
        ELSE SubSeq(line, CHOOSE i \in inked : \A j \in inked : i <= j,
                          CHOOSE i \in inked : \A j \in inked : j <= i)

\* self.functions.get(&command) and the handler's push
functions_get(command) ==
    IF command = <<"G">> THEN [k |-> "Move", mv |-> MoveE2]
    ELSE IF command = <<"M">> THEN [k |-> "SetBedTemp", t |-> 60]
    ELSE Unknown

\* GcodeVM::run_single_line_gcode_string: what the line dispatches; NoAction
\* when it returns Ok(()) before run_gcode
run_single_line_gcode_string(line) ==
    LET breaks == {i \in 1..Len(line) : line[i] \in {" ", ";"}}
        command == IF breaks = {} THEN line
                   ELSE SubSeq(line, 1,
                               (CHOOSE i \in breaks : \A j \in breaks : i <= j) - 1)
    IN  IF line = <<>> \/ line[1] = ";" THEN NoAction
        ELSE functions_get(command)

\* GcodeVM::run_gcode_string, one iteration on the text of a line
StringLineText(line) ==
    /\ pc["rpc"] = "line"
    /\ left["rpc"] > 0
    /\ script_line' = line
    /\ LET c == run_single_line_gcode_string(trim(line)) IN
       IF vm_suspended \/ c = Unknown
       THEN /\ pc' = [pc EXCEPT !["rpc"] = "ret"]
            /\ left' = [left EXCEPT !["rpc"] = 0]
            /\ UNCHANGED cur
       ELSE IF c = NoAction
       THEN /\ left' = [left EXCEPT !["rpc"] = @ - 1]
            /\ UNCHANGED <<pc, cur>>
       ELSE /\ pc' = [pc EXCEPT !["rpc"] = "push"]
            /\ left' = [left EXCEPT !["rpc"] = @ - 1]
            /\ cur' = [cur EXCEPT !["rpc"] = c]
    /\ UNCHANGED <<token_reply, file_vars, config_vars, g1_params, g1_out,
                   gf_lines, gf_out,
                   action_state_vars, aq_suspended, inner_vars, vm_suspended,
                   printer_vars, sent, lock_vars, job, caller_vars,
                   history_vars>>

\* Instance::run_gcode with scripts given as text, on a Ready printer
NextLines ==
    \/ \E n \in 0..(MaxLines - cmds) : RunGcode(n)
    \/ \E line \in Strings(LineChars, MaxLineLen) : StringLineText(line)
    \/ StringEnd
    \/ RunGcodeReturn
    \/ PushEnter("rpc") \/ PushMove("rpc") \/ PushSetTemp("rpc")
    \/ FlushEnter("rpc") \/ FlushBody("rpc")

SpecLines == InitReady /\ [][NextLines]_vars

\* the velocities G1 F0 and G1 F-600 store, and one above the floor
SlowVelocities == {F(0), F(0 - 100), F(200)}

\* the lines of a script that sets velocities (G1 F...) and moves
ClampCmds ==
    [k : {"SetVelocity"}, f : SlowVelocities] \cup [k : {"Move"}, mv : Moves]

\* Instance::run_gcode after the restart task of Instance::create has run
NextClamp ==
    \/ RestartBegin("ok")
    \/ RestartTodo
    \/ \E n \in 0..(MaxLines - cmds) : RunGcode(n)
    \/ \E c \in ClampCmds : StringLine(c)
    \/ StringEnd
    \/ RunGcodeReturn
    \/ PushEnter("rpc") \/ PushMove("rpc") \/ PushSetVelocity("rpc")
    \/ PushMovePanics("rpc")
    \/ FlushEnter("rpc") \/ FlushBody("rpc")

SpecClamp == Init /\ [][NextClamp]_vars

\* lines of a script of moves: G1 X12, G1 E2 F1800, G1 X12 E2 F0 and G1 F1200
MoveCmds ==
    {[k |-> "Move", mv |-> [MoveX1 EXCEPT !.x = F(12)]],
     [k |-> "Move", mv |-> MoveE2],
     [k |-> "Move", mv |-> [MoveE2 EXCEPT !.x = F(12),
                                          !.target_velocity = F(0)]],
     [k |-> "SetVelocity", f |-> F(200)]}

\* A Ready printer whose positioning modes, positions and max_velocity are
\* set: the fields of ActionState are public atomics, shared with the
\* handlers of the VM; the scenario "Absolute->relative conversion" of
\* spec.md sets absolute_position and x_position before its push.
InitMoves ==
    /\ InitService
    /\ InitGcode
    /\ max_velocity \in {F(DefaultMaxVelocity), F(200)}
    /\ absolute_position \in BOOLEAN
    /\ absolute_extrution \in BOOLEAN
    /\ gcode_line = 0
    /\ gcode_running = FALSE
    /\ x_position \in {NaN, F(5)}
    /\ y_position = NaN
    /\ z_position = NaN
    /\ e_position \in {F(0), F(3)}
    /\ aq_suspended = FALSE
    /\ first_move = None
    /\ first_move_accel = 0
    /\ next_actions = <<>>
    /\ vm_suspended = FALSE
    /\ state = "Ready"
    /\ error_code = "None"
    /\ print_job_queue = <<>>
    /\ event_loop_handle = TRUE
    /\ sent = <<>>
    /\ recv_idx = 0
    /\ lock_readers = {}
    /\ lock_writer = FALSE
    /\ restart_tasks = 0
    /\ cfg_found = "none"
    /\ pc = [t \in Tasks |-> IF t = "loop" THEN "recv" ELSE "none"]
    /\ cur = [t \in Tasks |-> NoAction]
    /\ left = [t \in Tasks |-> 0]
    /\ job = [t \in Tasks |-> 0]
    /\ estop_pc = "idle"
    /\ spawn_pc = "idle"
    /\ runs = 0
    /\ stops = 0
    /\ restarts = 0
    /\ cmds = 0
    /\ accepted = <<>>
    /\ ignored = 0
    /\ failed = {}
    /\ started = <<>>
    /\ next_job_id = 1
    /\ cfg_data = <<>>
    /\ cfg_out = NotParsed

\* Instance::run_gcode with scripts of moves
NextMoves ==
    \/ \E n \in 0..(MaxLines - cmds) : RunGcode(n)
    \/ \E c \in MoveCmds : StringLine(c)
    \/ StringEnd
    \/ RunGcodeReturn
    \/ PushEnter("rpc")
    \/ PushMove("rpc")
    \/ PushSetVelocity("rpc")
    \/ FlushEnter("rpc")
    \/ FlushBody("rpc")

SpecMoves == InitMoves /\ [][NextMoves]_vars

LoopStep ==
    \/ PushEnter("loop") \/ PushMove("loop") \/ PushSetVelocity("loop")
    \/ PushSetTemp("loop")
    \/ FlushEnter("loop") \/ FlushBody("loop") \/ PushWaitSend("loop")
    \/ \E n \in 0..(MaxFileCmds - cmds) : LoopRunNext(n)
    \/ \E c \in FileCmds : FileLine("loop", c)
    \/ FileEnd("loop") \/ LoopJobDone("loop") \/ LoopRepost("loop")
    \/ LoopForward

SpecReady ==
    /\ InitReady
    /\ [][NextReady]_vars
    /\ WF_vars(LoopStep)
    /\ WF_vars(SpawnPrintJobNotify)

\* ------------------------------------------------------------ definitions
Range(seq) == {seq[i] : i \in 1..Len(seq)}

IsActionEvent(ev) == ev.ev = "Action"

IsMotion(ev) == ev.ev = "Action" /\ ev.a.k \in {"KinematicMove", "ExtrusionMove"}

IsWaitEvent(ev) == ev.ev = "Action" /\ IsWait(ev.a)

IsDeferrableEvent(ev) == ev.ev = "Action" /\ IsDeferrable(ev.a)

Actions(log) == SelectSeq(log, IsActionEvent)

Motions(log) == SelectSeq(log, IsMotion)

\* the X/Y/Z/E displacement of a Move or of an emitted motion action
Displacement(m) ==
    IF m.k = "ExtrusionMove"
    THEN [x |-> F(0), y |-> F(0), z |-> F(0), e |-> m.distance]
    ELSE [x |-> m.x, y |-> m.y, z |-> m.z, e |-> m.e]

MoveDisplacement(m) == [x |-> m.x, y |-> m.y, z |-> m.z, e |-> m.e]

\* events sent in a step
Emitted == SubSeq(sent', Len(sent) + 1, Len(sent'))

PendingRunNext ==
    Cardinality({i \in (recv_idx + 1)..Len(sent) :
                    sent[i].ev = "RunNextPrintJob"})

RECURSIVE SumAxis(_, _)
SumAxis(moves, axis) ==
    IF moves = <<>> THEN F(0)
    ELSE FAdd(Head(moves)[axis], SumAxis(Tail(moves), axis))

\* ----------------------------------------------------------------- claims

\* C1: once emergency_stop has returned, and until a later restart has
\* completed, no PrinterEvent::Action is sent on the event channel - also not
\* by a push that had passed its suspended check when the stop happened.
C1_NoActionAfterStop ==
    [][(state \in {"Shutdown", "Startup"})
        => (Actions(sent') = Actions(sent))]_vars

\* C2: a job is taken from print_job_queue and started only while
\* gcode_running is false and no job executes, and gcode_running is true for
\* the whole time a job executes.
C2_OneJobAtATime ==
    /\ []((\E t \in FileTasks : job[t] # 0) => gcode_running)
    /\ [][started' # started
            => (/\ ~gcode_running
                /\ \A t \in FileTasks : job[t] = 0
                /\ job'["loop"] # 0)]_vars

C2_Witness ==
    /\ job["loop"] # 0
    /\ gcode_running
    /\ print_job_queue # <<>>
    /\ PendingRunNext > 0

C4_StartedInOrder ==
    started \o print_job_queue = [i \in 1..(next_job_id - 1) |-> i]

C4_Witness ==
    Len(started) = 2 /\ PendingRunNext > 0

\* C5: when the Moves pushed to an unsuspended queue in relative mode have
\* been flushed, the emitted motion actions are the accepted Moves: as many,
\* in push order, with the same X/Y/Z/E displacement.
C5_MovesEmittedInOrder ==
    [][(pc["rpc"] = "flush_body" /\ pc'["rpc"] = "ret"
            /\ stops = 0 /\ restarts = 0 /\ ~absolute_position)
        => ([i \in 1..Len(Motions(sent')) |->
                    Displacement(Motions(sent')[i].a)]
            = [i \in 1..Len(accepted') |->
                    MoveDisplacement(accepted'[i])])
      ]_vars

\* C6: each of x/y/z/e_position is its initial value plus the sum of the
\* relative displacements of the accepted Moves, emitted or not; a push
\* ignored while suspended adds nothing.
C6_PositionIsSumOfAccepted ==
    /\ x_position = FAdd(NaN, SumAxis(accepted, "x"))
    /\ y_position = FAdd(NaN, SumAxis(accepted, "y"))
    /\ z_position = FAdd(NaN, SumAxis(accepted, "z"))
    /\ e_position = FAdd(F(0), SumAxis(accepted, "e"))

C6_Witness ==
    /\ ignored > 0
    /\ first_move # None
    /\ Motions(sent) = <<>>
    /\ e_position = F(2)

\* C7: a SetBedTemp or SetExtruderTemp that was deferred behind a held
\* first_move is not emitted before the motion action of that move: in a
\* step that emits while a first_move is held, the first event is not the
\* deferred thermal action.
C7_DeferredAfterHeldMove ==
    [][(first_move # None /\ Len(sent') > Len(sent))
        => ~IsDeferrableEvent(sent'[Len(sent) + 1])]_vars

\* C8: when a SetBedTempWait or SetExtruderTempWait is emitted, every Move
\* accepted before it has been emitted as a motion action and no first_move
\* is held.
C8_WaitAfterAllMoves ==
    [][(Len(sent') = Len(sent) + 1 /\ IsWaitEvent(sent'[Len(sent')]))
        => (first_move = None /\ Len(Motions(sent)) = Len(accepted))]_vars

\* C9: a push or flush that is entered while the queue is suspended returns
\* at once: it emits nothing and leaves first_move, the deferred FIFO, the
\* positions and max_velocity unchanged; entered while not suspended, a push
\* is accepted.
C9_SuspendedPushIsNoOp ==
    [][\A t \in Tasks :
        (pc[t] \in {"push", "wflush", "flush"} /\ pc'[t] # pc[t])
        => IF aq_suspended
           THEN /\ pc'[t] \in {"line", "none", "wsend", "ret"}
                /\ UNCHANGED <<first_move, next_actions, x_position,
                               y_position, z_position, e_position,
                               max_velocity, sent>>
           ELSE pc'[t] \in {"body", "wflush", "wflush_body", "flush_body",
                            "none"}]_vars

C9_Witness ==
    ignored > 0 /\ state = "Ready" /\ ~aq_suspended

\* C10: while an emergency_stop requested through the Instance is waiting,
\* a running run_gcode script dispatches no further line.
C10_StopPreemptsScript ==
    [][(estop_pc = "waiting" /\ pc["rpc"] = "line")
        => pc'["rpc"] # "push"]_vars

\* C11: gcode_line is set to 0 when a file run starts and never decreases
\* during the run; it advances by one exactly when a command of the file
\* has been dispatched successfully (so it equals the number of commands
\* dispatched), and not when a handler fails.
C11_GcodeLineCountsDispatched ==
    [][/\ (started' # started) => (gcode_line' = 0)
       /\ (gcode_line' < gcode_line) => (started' # started)
       /\ (gcode_line' > gcode_line)
            => (/\ gcode_line' = gcode_line + 1
                /\ \E t \in FileTasks : pc[t] \in InPush /\ pc'[t] = "line")
       /\ \A t \in FileTasks :
            (pc[t] \in InPush /\ pc'[t] = "line")
                => (gcode_line' = gcode_line + 1)
       /\ (failed' # failed) => (gcode_line' = gcode_line)
      ]_vars

\* C12: a restart whose config can be opened, read and parsed ends with the
\* printer Ready, the action queue cleared and resumed, the VM resumed and an
\* event loop running; while the restart runs the state is Startup.
C12_RestartEndsReady ==
    /\ [](lock_writer => state = "Startup")
    /\ [][(cfg_found = "ok" /\ lock_writer /\ ~lock_writer')
            => (/\ state' = "Ready"
                /\ first_move' = None
                /\ next_actions' = <<>>
                /\ ~aq_suspended'
                /\ ~vm_suspended'
                /\ event_loop_handle'
                /\ pc'["loop"] # "none")]_vars

\* C13: a restart whose config cannot be opened ends in Error with code
\* FileNotFound, one whose config cannot be read with FileReadError, one
\* whose config does not parse with PrinterConfigParseError; none of them
\* resumes the queue or the VM.
C13_ConfigErrorCodes ==
    [][(cfg_found \in ConfigFailures /\ lock_writer /\ ~lock_writer')
        => (/\ state' = "Error"
            /\ error_code' = (IF cfg_found = "open" THEN "FileNotFound"
                              ELSE IF cfg_found = "read" THEN "FileReadError"
                              ELSE "PrinterConfigParseError")
            /\ UNCHANGED <<aq_suspended, vm_suspended>>)]_vars

C15_TokenThenState ==
    [][(token_reply = NoReply /\ token_reply' # NoReply)
        => LET r == token_reply'
               good == r.is_valid /\ ~r.is_timeout
           IN  /\ (r.err = "None") <=> (good /\ state = "Ready")
               /\ r.is_timeout => (r.err = "AuthTokenTimeout")
               /\ (~r.is_timeout /\ ~r.is_valid) => (r.err = "AuthTokenInvalid")
               /\ (good /\ state = "Startup") => (r.err = "StartupState")
               /\ (good /\ state = "Shutdown") => (r.err = "ShutdownState")
               /\ (good /\ state = "Error")
                    => (r.err = error_code /\ error_code # "None")]_vars

C15_Witness ==
    /\ state = "Error"
    /\ token_reply = [is_valid |-> TRUE, is_timeout |-> FALSE,
                      err |-> "FileNotFound"]

\* C16: a pushed SetVelocity(v) emits nothing, queues nothing and leaves a
\* held first_move as it is; max_velocity becomes v and changes at no other
\* step; every Move accepted afterwards gets max_velocity as its target
\* velocity when it names none, and its own target clamped to at most
\* max_velocity when it names one.
C16_SetVelocityForLaterMoves ==
    [][/\ \A t \in Tasks :
            (pc[t] = "body" /\ cur[t].k = "SetVelocity" /\ pc'[t] = "line")
                => (/\ max_velocity' = cur[t].f
                    /\ UNCHANGED <<sent, inner_vars, accepted>>)
       /\ (max_velocity' # max_velocity)
            => (\E t \in Tasks :
                    /\ pc[t] = "body" /\ cur[t].k = "SetVelocity"
                    /\ pc'[t] = "line")
       /\ \A t \in Tasks :
            (pc[t] = "body" /\ cur[t].k = "Move" /\ pc'[t] = "line")
                => LET asked == cur[t].mv.target_velocity
                       got == accepted'[Len(accepted')].target_velocity
                   IN  /\ Len(accepted') = Len(accepted) + 1
                       /\ ~got.nan
                       /\ got.v <= max_velocity.v
                       /\ asked.nan => (got = max_velocity)
                       /\ (~asked.nan /\ asked.v > max_velocity.v)
                            => (got = max_velocity)
                       /\ (~asked.nan /\ asked.v <= max_velocity.v
                                /\ asked.v >= ClampFloor)
                            => (got = asked)
      ]_vars

\* a Move held from before the SetVelocity keeps its target; the Move
\* pushed after it, which names a target above v, is accepted with v
C16_Witness ==
    /\ max_velocity = F(200)
    /\ Len(accepted) = 2
    /\ accepted[1].target_velocity = F(DefaultMaxVelocity)
    /\ accepted[2].e = F(2)
    /\ accepted[2].target_velocity = F(200)

\* C17 (as claimed): after a Modify or Remove event the cache holds no
\* entry whose key starts with a path of the event, and the entries whose
\* keys start with none of its paths are kept.
C17_EventDropsEntriesBelow ==
    [][(events' # events /\ event'.kind \in {"Modify", "Remove"})
        => (/\ \A k \in DOMAIN cache' :
                    \A p \in event'.paths : ~starts_with(k, p)
            /\ \A k \in DOMAIN cache :
                    (\A p \in event'.paths : ~starts_with(k, p))
                        => (k \in DOMAIN cache' /\ cache'[k] = cache[k]))]_vars

\* C17 (amended): after a Modify or Remove event the cache holds no entry
\* whose key is a path of the event; every other entry is kept, the entries
\* of files below a path of the event included; an event of another kind
\* leaves the cache as it is.
C17_EventDropsExactEntries ==
    [][(events' # events)
        => IF event'.kind \in {"Modify", "Remove"}
           THEN /\ DOMAIN cache' = DOMAIN cache \ event'.paths
                /\ \A k \in DOMAIN cache' : cache'[k] = cache[k]
           ELSE cache' = cache]_vars

\* the one file that was opened and cached has been removed, and the event
\* has emptied the cache
C17_Witness ==
    /\ opens = 1
    /\ parses = 1
    /\ watched = {FileA}
    /\ event = [kind |-> "Remove", paths |-> {FileA}]
    /\ cache = EmptyCache

\* C18: a caller of open_gcode_file that has its result has the result
\* the worker made for the path that caller asked for.
C18_OwnResult ==
    \A c \in Callers :
        (open_pc[c] = "done") => (open_got[c].path = open_path[c])

\* the place of the first character of text that is in chars, Len + 1 if
\* there is none
FirstIndex(text, chars) ==
    LET hits == {i \in 1..Len(text) : text[i] \in chars}
    IN  IF hits = {} THEN Len(text) + 1
        ELSE CHOOSE i \in hits : \A j \in hits : i <= j

\* text without the whitespace at its end
Trimmed(text) ==
    LET keep == {i \in 1..Len(text) : text[i] \notin Whitespace}
    IN  SubSeq(text, 1, IF keep = {} THEN 0
                        ELSE CHOOSE i \in keep : \A j \in keep : j <= i)

\* a line as a free-form string: without its ';' tail and the whitespace
\* before it
FreeForm(line) == Trimmed(SubSeq(line, 1, FirstIndex(line, {";"}) - 1))

RECURSIVE SplitLines(_)
SplitLines(text) ==
    IF text = <<>> THEN <<>>
    ELSE LET newline == FirstIndex(text, {"\n"})
         IN  <<SubSeq(text, 1, newline - 1)>>
                \o SplitLines(SubSeq(text, newline + 1, Len(text)))

\* the block that the lines start with: empty lines and '#' comments,
\* indented or not, give nothing; an indented line gives its text without
\* indentation and trailing whitespace, then a line feed; the first line
\* that is none of these ends the block
RECURSIVE BlockLines(_)
BlockLines(lines) ==
    IF lines = <<>> THEN <<>>
    ELSE LET line == Head(lines)
             body == SubSeq(line, FirstIndex(line, Range(line) \ Whitespace),
                            Len(line))
         IN  IF body = <<>> \/ body[1] = "#" THEN BlockLines(Tail(lines))
             ELSE IF line[1] \notin Whitespace THEN <<>>
             ELSE FreeForm(body) \o <<"\n">> \o BlockLines(Tail(lines))

\* C20: Gcode::parse returns the lines of the indented block in order,
\* each without its indentation and trailing whitespace and followed by a
\* line feed; '#' comment lines, indented or not, and empty lines give
\* nothing; the block ends at the first line that is not indented, not a
\* comment and not empty.
C20_GcodeBlockLines ==
    (cfg_out.by = "Gcode")
        => (cfg_out.r = "Ok" /\ cfg_out.v = BlockLines(SplitLines(cfg_data)))

\* C21: when a held move is encoded (a later Move push or a flush takes it
\* out of first_move), exactly one motion action is emitted for it: an
\* ExtrusionMove with flow = target_velocity and distance = e when
\* x = y = z = 0 and e # 0, a KinematicMove with the move's x, y, z, e when
\* a spatial component is not 0.
C21_HeldMoveEncoded ==
    [][(first_move # None /\ first_move' = None /\ ~lock_writer)
        => LET m == first_move
               spatial == m.x # F(0) \/ m.y # F(0) \/ m.z # F(0)
               out == Motions(Emitted)
           IN  /\ Len(out) = 1
               /\ (~spatial /\ m.e # F(0))
                    => (/\ out[1].a.k = "ExtrusionMove"
                        /\ out[1].a.flow = m.target_velocity
                        /\ out[1].a.distance = m.e)
               /\ spatial
                    => (/\ out[1].a.k = "KinematicMove"
                        /\ Displacement(out[1].a) = MoveDisplacement(m))
      ]_vars

\* C22: the G0/G1 handler on well-formed parameters: with F and none of
\* X/Y/Z/E (in either case) it pushes one SetVelocity(F/60) and no Move;
\* with no recognised parameter it pushes nothing; with one of X/Y/Z/E it
\* pushes one Move whose axes are the values given (the last one of each),
\* unspecified where none was given, with target_velocity F/60 when F is
\* given.
C22_G1Pushes ==
    (/\ g1_out.r # "none"
     /\ \A i \in 1..Len(g1_params) : g1_params[i].v # "abc")
    => LET at(L) == {i \in 1..Len(g1_params) : g1_params[i].l \in L}
           given(L) ==
               IF at(L) = {} THEN NaN
               ELSE LET i == CHOOSE j \in at(L) : \A k \in at(L) : k <= j
                    IN  fast_float_parse(g1_params[i].v).f
           f == given({"F", "f"})
           velocity == IF is_nan(f) THEN NaN ELSE F(f.v \div 6)
           axes == at({"X", "x", "Y", "y", "Z", "z", "E", "e"})
       IN  /\ g1_out.r = "Ok"
           /\ (axes = {} /\ ~is_nan(f))
                => g1_out.pushed = <<[k |-> "SetVelocity", f |-> velocity]>>
           /\ (axes = {} /\ is_nan(f)) => g1_out.pushed = <<>>
           /\ (axes # {})
                => g1_out.pushed =
                     <<[k |-> "Move",
                        mv |-> [start_velocity |-> NaN,
                                target_velocity |-> velocity,
                                x |-> given({"X", "x"}),
                                y |-> given({"Y", "y"}),
                                z |-> given({"Z", "z"}),
                                e |-> given({"E", "e"})]]>>

C24_AbsoluteToRelative ==
    [][(pc["rpc"] = "body" /\ cur["rpc"].k = "Move" /\ pc'["rpc"] # "body")
        => LET mv == cur["rpc"].mv
               next_move == accepted'[Len(accepted')]
           IN  /\ Len(accepted') = Len(accepted) + 1
               /\ (first_move = None) => (first_move' = next_move)
               /\ (absolute_position /\ ~is_nan(mv.x) /\ ~is_nan(x_position))
                    => (/\ next_move.x = F(mv.x.v - x_position.v)
                        /\ x_position' = mv.x)
               /\ is_nan(mv.x)
                    => (next_move.x = F(0) /\ x_position' = x_position)
               /\ (absolute_extrution /\ ~is_nan(mv.e) /\ ~is_nan(e_position))
                    => (/\ next_move.e = F(mv.e.v - e_position.v)
                        /\ e_position' = mv.e)
               /\ is_nan(mv.e)
                    => (next_move.e = F(0) /\ e_position' = e_position)
      ]_vars

C24_Witness ==
    /\ absolute_position
    /\ ~absolute_extrution
    /\ first_move # None
    /\ first_move.x = F(7)
    /\ first_move.e = F(2)
    /\ x_position = F(12)
    /\ e_position = F(5)

\* C25: the target_velocity of every accepted Move, as stored in
\* first_move or handed on as the look-ahead hint, lies in
\* [0.1, max_velocity] for the max_velocity at the push; an unspecified
\* target_velocity becomes max_velocity.
C25_TargetVelocityClamped ==
    [][(pc["rpc"] = "body" /\ cur["rpc"].k = "Move" /\ pc'["rpc"] # "body")
        => LET mv == cur["rpc"].mv
               next_move == accepted'[Len(accepted')]
               v == next_move.target_velocity
           IN  /\ Len(accepted') = Len(accepted) + 1
               /\ (first_move = None) => (first_move' = next_move)
               /\ ~is_nan(v)
               /\ ClampFloor <= v.v
               /\ v.v <= max_velocity.v
               /\ is_nan(mv.target_velocity) => (v = max_velocity)
      ]_vars

C25_Witness ==
    /\ max_velocity = F(200)
    /\ Len(accepted) = 3
    /\ accepted[1].target_velocity = F(ClampFloor)
    /\ accepted[2].e = F(2)
    /\ accepted[2].target_velocity = F(200)
    /\ accepted[3].e = F(0)
    /\ accepted[3].target_velocity = F(200)

\* C26: moves that were pushed and not flushed are dropped by
\* emergency_stop and restart: the stop emits nothing and changes neither
\* the queue nor the positions, no motion action is emitted while the
\* printer is stopped or starting, and the restart with a good config leaves
\* first_move and the deferred actions empty, emits nothing and keeps the
\* x/y/z/e positions as the accepted Moves left them.
C26_StopAndRestartDropPending ==
    [][/\ ((estop_pc = "waiting" /\ estop_pc' = "idle")
                \/ restarts' # restarts)
            => (/\ sent' = sent
                /\ <<first_move, next_actions>>' = <<first_move, next_actions>>
                /\ <<x_position, y_position, z_position, e_position>>'
                        = <<x_position, y_position, z_position, e_position>>)
       /\ (state \in {"Shutdown", "Startup"})
            => (Motions(sent') = Motions(sent))
       /\ (lock_writer /\ cfg_found = "ok" /\ ~lock_writer')
            => (/\ first_move' = None
                /\ next_actions' = <<>>
                /\ sent' = sent
                /\ <<x_position, y_position, z_position, e_position>>'
                        = <<x_position, y_position, z_position, e_position>>)
      ]_vars

C26_Witness ==
    /\ restarts = 1
    /\ lock_writer
    /\ cfg_found = "ok"
    /\ aq_suspended
    /\ first_move # None
    /\ next_actions # <<>>
    /\ e_position = F(2)
    /\ Motions(sent) = <<>>

C28_ThumbnailAbortReparsesLine ==
    (gf_out.r = "Ok")
        => LET at(rule) == {i \in 1..Len(gf_lines) : gf_lines[i] = rule}
               in_order(numbers) ==
                   \A a, b \in 1..Len(numbers) :
                       a < b => numbers[a] < numbers[b]
               ends(i) == {k \in (i + 1)..Len(gf_lines) :
                             /\ gf_lines[k] = "ThumbnailEnd"
                             /\ \A j \in (i + 1)..(k - 1) :
                                    gf_lines[j] = "ThumbnailLine"}
           IN  /\ Range(gf_out.commands) = at("GcodeLine")
               /\ in_order(gf_out.commands)
               /\ Range(gf_out.meta) = at("Meta")
               /\ in_order(gf_out.meta)
               /\ {t.info : t \in Range(gf_out.thumbnails)}
                    = {i \in at("ThumbnailInfo") : ends(i) # {}}
               /\ \A t \in Range(gf_out.thumbnails) :
                    \A k \in ends(t.info) :
                        t.data = [j \in 1..(k - t.info - 1) |-> t.info + j]
\* C29: when run_gcode_file comes to a command of its file with the VM
\* suspended it returns Ok there: the command and the ones after it are not
\* dispatched, whatever resume() does later, and gcode_line stays at the
\* number of commands dispatched.
C29_FileRunReturnsWhenSuspended ==
    [][\A t \in FileTasks :
        (/\ pc[t] = "line" /\ left[t] > 0 /\ vm_suspended
         /\ pc'[t] # "none" /\ left'[t] # left[t])
            => (/\ pc'[t] = "job_done"
                /\ left'[t] = 0
                /\ gcode_line' = gcode_line)]_vars
\* C30: push and flush emit to the event channel only while they hold the
\* lock of ActionQueueInner, so the channel has the actions in the order in
\* which the operations took the lock: between the flush of a
\* SetBedTempWait/SetExtruderTempWait and the emission of that action no
\* other task emits an action, has a move accepted or queues an action.
C30_WaitEmittedWithItsFlush ==
    [][\A t \in Tasks :
        (pc[t] = "wsend" /\ pc'[t] = "wsend")
            => (/\ Actions(sent') = Actions(sent)
                /\ accepted' = accepted
                /\ Len(next_actions') <= Len(next_actions))]_vars
\* C31: a run_gcode_string that returns Ok, on a VM and a queue that are not
\* suspended and with no other pusher, leaves no first_move and no deferred
\* action in the queue: its flush takes the held move and emits every
\* deferred action; a line that is empty, blank or begins (after its
\* leading spaces) with ';' dispatches nothing and changes nothing.
C31_ScriptLeavesQueueEmpty ==
    [][LET skipped(line) ==
                LET inked == {i \in 1..Len(line) : line[i] # " "}
                IN  \/ inked = {}
                    \/ line[CHOOSE i \in inked : \A j \in inked : i <= j] = ";"
           failed_on(line) ==
                /\ ~skipped(line)
                /\ run_single_line_gcode_string(trim(line)) = Unknown
       IN  /\ (pc["rpc"] = "flush_body" /\ pc'["rpc"] = "ret")
                => (/\ first_move' = None
                    /\ next_actions' = <<>>
                    /\ Len(sent') = Len(sent) + Len(next_actions))
           /\ (pc'["rpc"] = "ret" /\ ~failed_on(script_line'))
                => (first_move' = None /\ next_actions' = <<>>)
           /\ (pc["rpc"] = "line" /\ left'["rpc"] < left["rpc"]
                 /\ skipped(script_line'))
                => (/\ pc'["rpc"] = "line"
                    /\ left'["rpc"] = left["rpc"] - 1
                    /\ <<cur, sent, first_move, next_actions, accepted,
                          x_position, y_position, z_position, e_position,
                          max_velocity>>'
                         = <<cur, sent, first_move, next_actions, accepted,
                             x_position, y_position, z_position,
                             e_position, max_velocity>>)
      ]_vars

\* a script of a move, a temperature and a comment line has returned
C31_Witness ==
    /\ pc["rpc"] = "ret"
    /\ Len(accepted) = 1
    /\ Len(Actions(sent)) = 1
    /\ script_line = <<" ", ";", "G">>
    /\ first_move = None
    /\ next_actions = <<>>

\* C32: while one event is processed every registered handler whose path is
\* an ancestor of a path of the event is invoked, whatever is removed on the
\* way; afterwards exactly the handlers whose callback returned false are
\* gone, no watch is left on their paths, every other handler is still
\* registered, once
C32_EveryMatchingHandlerInvoked ==
    [][events' # events =>
        LET matching == {h \in Range(handlers) :
                           \E p \in event'.paths : starts_with(p, h.path)}
            gone == {h \in matching : ~handler_log'.returned[h.id]}
        IN  /\ handler_log'.invoked = {h.id : h \in matching}
            /\ Range(handlers') = Range(handlers) \ gone
            /\ Len(handlers') = Cardinality(Range(handlers'))
            /\ watched' \cap {h.path : h \in gone} = {}
            /\ watched' \cup {h.path : h \in gone} = watched
               \cup {h.path : h \in gone}
    ]_vars

\* three handlers matched an event; the first two returned false, the
\* third, which took the place of the first, was invoked and is kept
C32_Witness ==
    /\ events = 1
    /\ handler_log.invoked = {1, 2, 3}
    /\ handler_log.returned = <<FALSE, FALSE, TRUE>>
    /\ handlers = <<[path |-> Dir, id |-> 3]>>

\* C33: while no writer holds the printer lock, the state is Ready exactly
\* when the queue and the VM are both not suspended, and in Startup,
\* Shutdown and Error both are suspended
C33_ReadyIffResumed ==
    ~lock_writer =>
        /\ (state = "Ready") <=> (~aq_suspended /\ ~vm_suspended)
        /\ state \in {"Startup", "Shutdown", "Error"}
              => (aq_suspended /\ vm_suspended)

\* C34: once an emergency_stop has returned and no restart has been
\* requested since Instance::create, the printer is Shutdown with the queue
\* and the VM suspended: the restart task that Instance::create spawned,
\* if it is still pending when the stop returns, does not set Startup,
\* resume the queue and the VM or set Ready
C34_StopBeatsPendingRestart ==
    (restarts = 0 /\ stops > 0 /\ estop_pc = "idle")
        => (state = "Shutdown" /\ aq_suspended /\ vm_suspended)

\* C35: an open_gcode_file(p) that starts after the file-change task has
\* handled a Modify or Remove event for p never returns a GcodeFile parsed
\* from the content p had before that change
C35_NoStaleFileAfterEvent ==
    [][\A c \in Callers :
          (open_pc[c] = "recv" /\ open_pc'[c] = "done"
             /\ open_got'[c].gen > 0)
            => content[open_got'[c].gen] >= open_after[c]
    ]_vars

\* C36: Config::parse returns Ok or a ParseError for every input; it
\* neither loops for ever nor panics
C36_ConfigParseReturns ==
    cfg_out.by = "Config" => cfg_out.r \in {"Ok", "Err"}

\* C37: the G0/G1 handler treats a parameter the same whether its leading
\* letter is upper or lower case, for X, Y, Z, E and F: replacing the
\* leading letter of any parameter by its other case yields the same result
\* and the same pushed action
C37_LetterCaseIgnored ==
    g1_out.r # "none" =>
        LET other_case(l) ==
                CASE l = "X" -> "x" [] l = "x" -> "X"
                  [] l = "Y" -> "y" [] l = "y" -> "Y"
                  [] l = "Z" -> "z" [] l = "z" -> "Z"
                  [] l = "E" -> "e" [] l = "e" -> "E"
                  [] l = "F" -> "f" [] l = "f" -> "F"
                  [] OTHER -> l
        IN  \A i \in 1..Len(g1_params) :
                handler_inner([g1_params EXCEPT ![i].l = other_case(@)])
                    = g1_out

\* C38: a run_gcode_string that fails on a line returns the error at once,
\* without the flush: what the earlier lines did stays as it is (the events
\* sent, the positions, max_velocity, the held move and the deferred
\* actions), and a held first_move is taken only by the push of a Move, by
\* a flush (of a Wait or of the end of a script) or by a clear
C38_ErrorReturnKeepsHeldMove ==
    [][/\ (/\ pc["rpc"] = "line" /\ left["rpc"] > 0 /\ ~vm_suspended
            /\ pc'["rpc"] \notin {"line", "push"})
            => (/\ pc'["rpc"] = "ret"
                /\ <<sent, first_move, next_actions, accepted, max_velocity,
                      x_position, y_position, z_position, e_position>>'
                     = <<sent, first_move, next_actions, accepted,
                         max_velocity, x_position, y_position, z_position,
                         e_position>>)
       /\ (first_move # None /\ first_move' # first_move)
            => \/ \E t \in Tasks :
                    /\ pc[t] = "body" /\ cur[t].k = "Move"
                    /\ pc'[t] # pc[t]
               \/ \E t \in Tasks :
                    /\ pc[t] \in {"wflush_body", "flush_body"}
                    /\ pc'[t] # pc[t]
               \/ (lock_writer /\ cfg_found = "ok" /\ ~lock_writer')
      ]_vars

\* a script has sent a temperature, pushed a Move and failed on its third
\* line: the Move is still held
C38_Witness ==
    /\ pc["rpc"] = "ret"
    /\ ~vm_suspended
    /\ ~aq_suspended
    /\ first_move # None
    /\ Len(accepted) = 1
    /\ Len(Actions(sent)) = 1

\* C39: in every reachable state of the ActionQueue the deferred FIFO is
\* non-empty only while a first_move is held
C39_DeferredOnlyBehindHeldMove ==
    first_move = None => next_actions = <<>>

\* a temperature is deferred behind a held move, on a queue that has sent
\* a temperature at once before, while it held none
C39_Witness ==
    /\ first_move # None
    /\ next_actions # <<>>
    /\ Len(Actions(sent)) = 1

\* C40: push(Move) completes normally whatever max_velocity an earlier
\* SetVelocity has stored, zero and negative values included: the clamp of
\* target_velocity to [0.1, max_velocity] never panics
C40_PushMoveNeverPanics ==
    \A t \in Tasks : pc[t] # "panic"
====
